---- MODULE Spec2Model ----
(***************************************************************************)
(* rPBR core (src/src/pbrcore.h) as a state machine.                       *)
(*                                                                         *)
(* The library is a set of functions called by a single-threaded host.     *)
(* The state is the library's one global (lightsCount), the part of the    *)
(* OpenGL context the functions touch (live shader programs with their     *)
(* uniform values, live textures), and the values the host keeps between   *)
(* calls (its Environment, its Light handles, its MaterialPBR).            *)
(*                                                                         *)
(* Conventions                                                             *)
(*  - A uniform name is a tuple of one-character strings, so that the      *)
(*    in-place patch of character 7 done by CreateLight is modelled as the *)
(*    array write it is.                                                   *)
(*  - A uniform location is the index of the name in the program's list of *)
(*    active uniforms (-1 when the name is not active).  Programs linked   *)
(*    from the same sources get the same locations.                        *)
(*  - A float that is used only by copy (positions, targets) is an         *)
(*    integer; a float produced by the colour normalisation c/255 is kept  *)
(*    exactly, in units of 1/255 (see FloatOfByte, FloatDiv).              *)
(*  - glGen* / glCreateProgram hand out names that were never used before. *)
(*  - The host passes to the light functions only an Environment that was  *)
(*    returned by LoadEnvironment and not yet unloaded, and it calls       *)
(*    UpdateLightValues only for the Light handles below GetLightsCount()  *)
(*    (as rpbr.c does, lines 362-368 and 413-424).                         *)
(***************************************************************************)
EXTENDS Integers, Sequences, FiniteSets, Bags, TLC

VARIABLES
    lightsCount,    \* pbrcore.h:137  static int lightsCount
    glPrograms,     \* live shader programs: id -> [src, u], u the uniform values by location + 1
    glTextures,     \* live texture names
    nextProgram,    \* last program name handed out
    nextTexture,    \* last texture name handed out
    environment,    \* the host's Environment value
    lights,         \* the host's Light values, one per CreateLight call, in call order
    madeOn,         \* history: per CreateLight call, the pbrShader of the Environment passed
    passedPos,      \* history: the position passed to each of the first MAX_LIGHTS calls
    mat,            \* the host's MaterialPBR value
    unloadCalls,    \* history: bag of the texture names UnloadTexture deleted
    call,           \* history: the host's last material call, with its arguments
    glUnits,        \* texture units: the active unit and, per unit, the names bound to
                    \* GL_TEXTURE_CUBE_MAP (cube) and GL_TEXTURE_2D (tex2d)
    glFramebuffer,  \* the bound framebuffer, and the colour attachment and depth storage
                    \* of the capture framebuffer of the last LoadEnvironment call
    glViewport,     \* <<x, y, width, height>>
    texWrites,      \* history: bag of texture names, one copy per time storage of the
                    \* texture was specified or a face or level of it was rendered into
    loadArgs,       \* history: the arguments of the last LoadEnvironment call
    viewer          \* rpbr.c: the locals and globals of main that the library does not see

vars == <<lightsCount, glPrograms, glTextures, nextProgram, nextTexture,
          environment, lights, madeOn, passedPos, mat, unloadCalls, call,
          glUnits, glFramebuffer, glViewport, texWrites, loadArgs, viewer>>

\* What the host of the light functions keeps, and what the host of the material
\* functions keeps.
lightVars == <<lights, madeOn, passedPos>>
materialVars == <<mat, unloadCalls, call>>

\* What the light and material functions leave alone: the framebuffer, the
\* viewport, and the history of the texture writes and of LoadEnvironment.
captureVars == <<glFramebuffer, glViewport, texWrites, loadArgs>>

----------------------------------------------------------------------------
(* Program constants *)

MAX_LIGHTS == 4
LIGHT_DIRECTIONAL == 0
LIGHT_POINT == 1

\* enum TypePBR
PBR_ALBEDO == 0
PBR_NORMALS == 1
PBR_METALNESS == 2
PBR_ROUGHNESS == 3
PBR_AO == 4
PBR_EMISSION == 5
PBR_HEIGHT == 6

MAX_MIPMAP_LEVELS == 5

(* Bounds of the model *)

MaxLoads == 2
MaxCreateCalls == 5
MaxTextures == 2
MaxSize == 18

----------------------------------------------------------------------------
(* Values *)

Zero3 == <<0, 0, 0>>
Zero4 == <<0, 0, 0, 0>>
ZeroColor == [r |-> 0, g |-> 0, b |-> 0, a |-> 0]

Min(a, b) == IF a < b THEN a ELSE b

\* Light light = { 0 };
ZeroLight ==
    [enabled |-> FALSE, type |-> 0, position |-> Zero3, target |-> Zero3,
     color |-> ZeroColor,
     enabledLoc |-> 0, typeLoc |-> 0, posLoc |-> 0, targetLoc |-> 0, colorLoc |-> 0]

\* Environment env = { 0 };
ZeroEnvironment ==
    [pbrShader |-> 0, skyShader |-> 0,
     cubemapId |-> 0, irradianceId |-> 0, prefilterId |-> 0, brdfId |-> 0,
     pbrViewLoc |-> 0, skyViewLoc |-> 0, skyResolutionLoc |-> 0]

\* Texture2D texture = { 0 };
ZeroTexture == [id |-> 0, width |-> 0, height |-> 0]

\* PropertyPBR and MaterialPBR with every byte zero (MaterialPBR matPBR = { 0 }).
ZeroProperty == [bitmap |-> ZeroTexture, useBitmap |-> FALSE, color |-> ZeroColor]

ZeroMaterial ==
    [albedo |-> ZeroProperty, normals |-> ZeroProperty, metalness |-> ZeroProperty,
     roughness |-> ZeroProperty, ao |-> ZeroProperty, emission |-> ZeroProperty,
     height |-> ZeroProperty, env |-> ZeroEnvironment]

\* The members of MaterialPBR that are properties, in the order of TypePBR.
Properties == <<"albedo", "normals", "metalness", "roughness", "ao", "emission", "height">>

TypesPBR == PBR_ALBEDO..PBR_HEIGHT

\* The arguments the host passes to SetupMaterialPBR: the viewer's, and constants
\* of type int on both sides of the range of a colour byte.
MaterialInputs ==
    { [albedo |-> [r |-> 255, g |-> 255, b |-> 255, a |-> 255], metalness |-> 255, roughness |-> 255],
      [albedo |-> [r |-> 10, g |-> 20, b |-> 30, a |-> 255], metalness |-> 0, roughness |-> 300] }

\* The arguments rpbr.c passes to LoadEnvironment (a file that decodes, the four
\* sizes), with the size of its window.
ViewerArgs ==
    [decodes |-> TRUE, cubemapSize |-> 1024, irradianceSize |-> 32, prefilterSize |-> 256,
     brdfSize |-> 512, screen |-> <<1440, 810>>]

\* The arguments of LoadEnvironment in general: every prefilter size up to
\* MaxSize with the viewer's other arguments, and the viewer's arguments with a
\* file that cannot be decoded, with other sizes, with the prefilter size of
\* pbr_demo.c (PREFILTERED_SIZE), and with a square window.
LoadInputs ==
    { [ViewerArgs EXCEPT !.prefilterSize = p] : p \in 1..MaxSize }
    \cup { ViewerArgs,
           [ViewerArgs EXCEPT !.decodes = FALSE],
           [ViewerArgs EXCEPT !.cubemapSize = 64, !.irradianceSize = 8, !.brdfSize = 16],
           [ViewerArgs EXCEPT !.prefilterSize = 128],
           [ViewerArgs EXCEPT !.screen = <<1000, 1000>>, !.decodes = FALSE, !.prefilterSize = 100] }

\* The viewer before main runs: no texture in textures[], no shader in material
\* and model.material, and the draw flags as rpbr.c:244-247 initialises them.
\* pass (the draw calls of the 3D pass so far), event (the file dropped in this
\* frame), images (the ids LoadTexture returned) and drops are history.
ViewerOff ==
    [pc |-> "boot", event |-> "none", textures |-> [i \in PBR_ALBEDO..PBR_HEIGHT |-> ZeroTexture],
     material |-> 0, shader |-> 0, totalLights |-> 0, drawGrid |-> FALSE, drawWire |-> FALSE,
     drawLights |-> TRUE, drawSkybox |-> TRUE, pass |-> << >>, images |-> {}, drops |-> 0]

\* Before any LoadEnvironment call.
NoArgs ==
    [decodes |-> TRUE, cubemapSize |-> 0, irradianceSize |-> 0, prefilterSize |-> 0,
     brdfSize |-> 0, screen |-> <<0, 0>>]

\* The arguments the host passes to CreateLight.
LightInputs ==
    { [type |-> LIGHT_POINT, pos |-> <<3, 1, 0>>, targ |-> <<0, 0, 1>>,
       color |-> [r |-> 255, g |-> 0, b |-> 128, a |-> 255]],
      [type |-> LIGHT_DIRECTIONAL, pos |-> Zero3, targ |-> Zero3,
       color |-> ZeroColor] }

----------------------------------------------------------------------------
(* Characters and uniform names *)

\* The character with code c, for the codes '0' + n can produce here.
Chr(c) ==
    CASE c = 48 -> "0" [] c = 49 -> "1" [] c = 50 -> "2" [] c = 51 -> "3"
      [] c = 52 -> "4" [] c = 53 -> "5" [] c = 54 -> "6" [] c = 55 -> "7"
      [] c = 56 -> "8" [] c = 57 -> "9" [] c = 58 -> ":" [] c = 59 -> ";"
      [] OTHER -> "?"

Ord0 == 48

\* The char arrays of CreateLight, before the patch.
EnabledNameX == <<"l","i","g","h","t","s","[","x","]",".","e","n","a","b","l","e","d">>
TypeNameX    == <<"l","i","g","h","t","s","[","x","]",".","t","y","p","e">>
PosNameX     == <<"l","i","g","h","t","s","[","x","]",".","p","o","s","i","t","i","o","n">>
TargetNameX  == <<"l","i","g","h","t","s","[","x","]",".","t","a","r","g","e","t">>
ColorNameX   == <<"l","i","g","h","t","s","[","x","]",".","c","o","l","o","r">>

\* The patch with the digit counted from '1'.
PatchIndex_FromOne(name, n) == [name EXCEPT ![8] = Chr(Ord0 + n + 1)]

\* name[7] = '0' + n;  (C index 7 is element 8 of the tuple)
PatchIndex(name, n) == [name EXCEPT ![8] = Chr(Ord0 + n)]

----------------------------------------------------------------------------
(* The shader programs: active uniforms of the PBR and skybox shaders *)

LightFields == <<"enabled", "type", "position", "target", "color">>

FieldChars(f) ==
    CASE f = "enabled"  -> <<"e","n","a","b","l","e","d">>
      [] f = "type"     -> <<"t","y","p","e">>
      [] f = "position" -> <<"p","o","s","i","t","i","o","n">>
      [] f = "target"   -> <<"t","a","r","g","e","t">>
      [] f = "color"    -> <<"c","o","l","o","r">>

Digit(k) == CASE k = 0 -> "0" [] k = 1 -> "1" [] k = 2 -> "2" [] k = 3 -> "3"

\* The name lights[k].f as the shader declares it.
LightUniform(k, f) == <<"l","i","g","h","t","s","[">> \o <<Digit(k)>> \o <<"]", ".">> \o FieldChars(f)

FieldInit(f) ==
    CASE f = "enabled" -> 0 [] f = "type" -> 0
      [] f = "position" -> Zero3 [] f = "target" -> Zero3 [] f = "color" -> Zero4

\* Active uniforms of pbr.vs/pbr.fs, in location order, with their initial values.
PbrUniforms ==
    << [name |-> <<"irradianceMap">>, init |-> 0],
       [name |-> <<"prefilterMap">>, init |-> 0],
       [name |-> <<"brdfLUT">>, init |-> 0],
       [name |-> <<"albedo.sampler">>, init |-> 0],
       [name |-> <<"normals.sampler">>, init |-> 0],
       [name |-> <<"metalness.sampler">>, init |-> 0],
       [name |-> <<"roughness.sampler">>, init |-> 0],
       [name |-> <<"ao.sampler">>, init |-> 0],
       [name |-> <<"emission.sampler">>, init |-> 0],
       [name |-> <<"height.sampler">>, init |-> 0],
       [name |-> <<"viewPos">>, init |-> Zero3] >>
    \o [j \in 1..(MAX_LIGHTS * 5) |->
          [name |-> LightUniform((j - 1) \div 5, LightFields[((j - 1) % 5) + 1]),
           init |-> FieldInit(LightFields[((j - 1) % 5) + 1])]]
    \o << [name |-> <<"albedo.color">>, init |-> Zero3],
          [name |-> <<"normals.color">>, init |-> Zero3],
          [name |-> <<"metalness.color">>, init |-> Zero3],
          [name |-> <<"roughness.color">>, init |-> Zero3],
          [name |-> <<"ao.color">>, init |-> Zero3],
          [name |-> <<"emission.color">>, init |-> Zero3],
          [name |-> <<"height.color">>, init |-> Zero3],
          [name |-> <<"albedo.useSampler">>, init |-> 0],
          [name |-> <<"normals.useSampler">>, init |-> 0],
          [name |-> <<"metalness.useSampler">>, init |-> 0],
          [name |-> <<"roughness.useSampler">>, init |-> 0],
          [name |-> <<"ao.useSampler">>, init |-> 0],
          [name |-> <<"emission.useSampler">>, init |-> 0],
          [name |-> <<"height.useSampler">>, init |-> 0],
          [name |-> <<"mMatrix">>, init |-> "identity"] >>

\* Active uniforms of skybox.vs/skybox.fs.
SkyUniforms ==
    << [name |-> <<"environmentMap">>, init |-> 0],
       [name |-> <<"projection">>, init |-> "identity"],
       [name |-> <<"view">>, init |-> "identity"],
       [name |-> <<"resolution">>, init |-> <<0, 0>>] >>

UniformsOf(src) == IF src = "pbr" THEN PbrUniforms ELSE SkyUniforms

\* LoadShader: a freshly linked program, every uniform at its initial value.
NewProgram(src) ==
    [src |-> src, u |-> [j \in 1..Len(UniformsOf(src)) |-> UniformsOf(src)[j].init]]

\* GetShaderLocation(shader, name): glGetUniformLocation
GetShaderLocation(progs, id, name) ==
    IF id \notin DOMAIN progs THEN -1
    ELSE LET list == UniformsOf(progs[id].src)
             hits == {j \in 1..Len(list) : list[j].name = name}
         IN  IF hits = {} THEN -1 ELSE (CHOOSE j \in hits : TRUE) - 1

\* SetShaderValue / SetShaderValuei: glUseProgram + glUniform*; a location that is
\* not one of the program's is ignored (-1) or rejected with a GL error.
SetShaderValue(progs, id, loc, value) ==
    IF id \in DOMAIN progs /\ loc \in 0..(Len(progs[id].u) - 1)
    THEN [progs EXCEPT ![id].u[loc + 1] = value]
    ELSE progs

\* The value a live program holds for a named uniform.
Uniform(progs, id, name) == progs[id].u[GetShaderLocation(progs, id, name) + 1]

----------------------------------------------------------------------------
(* Floats of the colour normalisation, exact, in units of 1/255 *)

FloatUnit == 255
FloatOfByte(c) == c * FloatUnit
FloatDiv(a, b) == (a * FloatUnit) \div b

BoolToInt(b) == IF b THEN 1 ELSE 0

----------------------------------------------------------------------------
(* pbrcore.h: lights *)

\* UpdateLightValues with the position sent to the target uniform and the target
\* to the position uniform.
UpdateLightValuesOp_SwapsPositionTarget(progs, env, light) ==
    LET p1 == SetShaderValue(progs, env.pbrShader, light.enabledLoc, BoolToInt(light.enabled))
        p2 == SetShaderValue(p1, env.pbrShader, light.typeLoc, light.type)
        p3 == SetShaderValue(p2, env.pbrShader, light.targetLoc, light.position)
        p4 == SetShaderValue(p3, env.pbrShader, light.posLoc, light.target)
        diff == << FloatDiv(FloatOfByte(light.color.r), FloatOfByte(255)),
                   FloatDiv(FloatOfByte(light.color.g), FloatOfByte(255)),
                   FloatDiv(FloatOfByte(light.color.b), FloatOfByte(255)),
                   FloatDiv(FloatOfByte(light.color.a), FloatOfByte(255)) >>
    IN  SetShaderValue(p4, env.pbrShader, light.colorLoc, diff)

\* UpdateLightValues with the colour bytes sent without the division by 255.
UpdateLightValuesOp_RawColor(progs, env, light) ==
    LET p1 == SetShaderValue(progs, env.pbrShader, light.enabledLoc, BoolToInt(light.enabled))
        p2 == SetShaderValue(p1, env.pbrShader, light.typeLoc, light.type)
        p3 == SetShaderValue(p2, env.pbrShader, light.posLoc, light.position)
        p4 == SetShaderValue(p3, env.pbrShader, light.targetLoc, light.target)
        diff == << FloatOfByte(light.color.r), FloatOfByte(light.color.g),
                   FloatOfByte(light.color.b), FloatOfByte(light.color.a) >>
    IN  SetShaderValue(p4, env.pbrShader, light.colorLoc, diff)

\* void UpdateLightValues(Environment env, Light light)
UpdateLightValuesOp(progs, env, light) ==
    LET p1 == SetShaderValue(progs, env.pbrShader, light.enabledLoc, BoolToInt(light.enabled))
        p2 == SetShaderValue(p1, env.pbrShader, light.typeLoc, light.type)
        p3 == SetShaderValue(p2, env.pbrShader, light.posLoc, light.position)
        p4 == SetShaderValue(p3, env.pbrShader, light.targetLoc, light.target)
        diff == << FloatDiv(FloatOfByte(light.color.r), FloatOfByte(255)),
                   FloatDiv(FloatOfByte(light.color.g), FloatOfByte(255)),
                   FloatDiv(FloatOfByte(light.color.b), FloatOfByte(255)),
                   FloatDiv(FloatOfByte(light.color.a), FloatOfByte(255)) >>
    IN  SetShaderValue(p4, env.pbrShader, light.colorLoc, diff)

\* The five names CreateLight looks up when the count is n.
CreateLightNames(n) ==
    [enabled |-> PatchIndex(EnabledNameX, n),
     type    |-> PatchIndex(TypeNameX, n),
     pos     |-> PatchIndex(PosNameX, n),
     target  |-> PatchIndex(TargetNameX, n),
     color   |-> PatchIndex(ColorNameX, n)]

\* The Light CreateLight fills in when the count is below MAX_LIGHTS: the
\* arguments, enabled, and the five locations looked up under the patched names.
CreatedLight(count, progs, in, env) ==
    LET names == CreateLightNames(count)
    IN  [enabled |-> TRUE, type |-> in.type, position |-> in.pos,
         target |-> in.targ, color |-> in.color,
         enabledLoc |-> GetShaderLocation(progs, env.pbrShader, names.enabled),
         typeLoc    |-> GetShaderLocation(progs, env.pbrShader, names.type),
         posLoc     |-> GetShaderLocation(progs, env.pbrShader, names.pos),
         targetLoc  |-> GetShaderLocation(progs, env.pbrShader, names.target),
         colorLoc   |-> GetShaderLocation(progs, env.pbrShader, names.color)]

\* CreateLight with the capacity test off by one (<= for <).
CreateLightOp_GuardOffByOne(count, progs, in, env) ==
    IF count <= MAX_LIGHTS
    THEN LET light == CreatedLight(count, progs, in, env)
         IN  [light |-> light,
              progs |-> UpdateLightValuesOp(progs, env, light),
              count |-> count + 1]
    ELSE [light |-> ZeroLight, progs |-> progs, count |-> count]

\* CreateLight with the increment placed after the if block.
CreateLightOp_CountsRejected(count, progs, in, env) ==
    IF count < MAX_LIGHTS
    THEN LET light == CreatedLight(count, progs, in, env)
         IN  [light |-> light,
              progs |-> UpdateLightValuesOp(progs, env, light),
              count |-> count + 1]
    ELSE [light |-> ZeroLight, progs |-> progs, count |-> count + 1]

\* CreateLight with the arguments stored before the capacity test.
CreateLightOp_FieldsBeforeGuard(count, progs, in, env) ==
    IF count < MAX_LIGHTS
    THEN LET light == CreatedLight(count, progs, in, env)
         IN  [light |-> light,
              progs |-> UpdateLightValuesOp(progs, env, light),
              count |-> count + 1]
    ELSE [light |-> [ZeroLight EXCEPT !.type = in.type, !.position = in.pos,
                                      !.target = in.targ, !.color = in.color],
          progs |-> progs, count |-> count]

\* Light CreateLight(int type, Vector3 pos, Vector3 targ, Color color, Environment env)
\* as a function of the count and the programs: the Light returned, the programs
\* and the count afterwards.
CreateLightOp(count, progs, in, env) ==
    IF count < MAX_LIGHTS
    THEN LET light == CreatedLight(count, progs, in, env)
         IN  [light |-> light,
              progs |-> UpdateLightValuesOp(progs, env, light),
              count |-> count + 1]
    ELSE [light |-> ZeroLight, progs |-> progs, count |-> count]

\* int GetLightsCount(void)
GetLightsCount == lightsCount

----------------------------------------------------------------------------
(* raylib textures, as the material functions use them *)

\* Texture2D LoadTexture(const char *fileName): a new texture name for the image.
LoadTextureOp(texs, nt) ==
    [texture |-> [id |-> nt + 1, width |-> 64, height |-> 64],
     texs |-> texs \cup {nt + 1},
     nt |-> nt + 1]

\* void UnloadTexture(Texture2D texture): deletes the name unless it is 0.
UnloadTextureOp(texs, log, texture) ==
    IF texture.id > 0
    THEN [texs |-> texs \ {texture.id}, log |-> log (+) SetToBag({texture.id})]
    ELSE [texs |-> texs, log |-> log]

----------------------------------------------------------------------------
(* OpenGL texture units *)

\* The units the library selects: GL_TEXTURE0 to GL_TEXTURE9.
Units == 0..9

\* A context in which nothing was bound yet; GL_TEXTURE0 is the active unit.
NoUnits == [active |-> 0, cube |-> [u \in Units |-> 0], tex2d |-> [u \in Units |-> 0]]

\* glBindTexture(target, id): on the active unit.
BindTexture(units, target, id) == [units EXCEPT ![target][units.active] = id]

\* glActiveTexture(GL_TEXTURE0 + unit); glBindTexture(target, id);
Bind(units, unit, target, id) == [units EXCEPT !.active = unit, ![target][unit] = id]

\* if (cond) { glActiveTexture(GL_TEXTURE0 + unit); glBindTexture(GL_TEXTURE_2D, id); }
BindIf(units, cond, unit, id) == IF cond THEN Bind(units, unit, "tex2d", id) ELSE units

\* glDeleteTextures: a binding of a deleted name reverts to 0 on every unit.
DeleteTextures(units, ids) ==
    [units EXCEPT !.cube  = [u \in Units |-> IF @[u] \in ids THEN 0 ELSE @[u]],
                  !.tex2d = [u \in Units |-> IF @[u] \in ids THEN 0 ELSE @[u]]]

----------------------------------------------------------------------------
(* pbrcore.h: LoadEnvironment, the capture passes                              *)
(*                                                                             *)
(* The passes are written as operators on a record g of the context the call   *)
(* works in: units, fb (bound framebuffer, colour attachment and depth storage *)
(* of the capture framebuffer), viewport, writes, program (the program in use),*)
(* uniforms (of the four capture programs) and log.  The log gets one entry    *)
(* per RenderCube/RenderQuad call, taken when the call is made, and one entry  *)
(* at the end of each pass.  A float is kept exactly, as a reduced fraction.   *)

RECURSIVE Gcd(_, _)
Gcd(a, b) == IF b = 0 THEN a ELSE Gcd(b, a % b)

\* (float)a/(float)b for small non-negative a and positive b.
Ratio(a, b) == <<a \div Gcd(a, b), b \div Gcd(a, b)>>

\* unsigned int mipWidth = prefilterSize*powf(0.5f, mip): the product is exact in
\* float for the sizes used here, and the conversion drops the fraction.
MipSize(size, mip) == size \div (2 ^ mip)

\* Uniforms of cubemap.fs, irradiance.fs, prefilter.fs and brdf.fs after linking.
CaptureUniforms ==
    [cube       |-> [equirectangularMap |-> 0, projection |-> "identity", view |-> "identity"],
     irradiance |-> [environmentMap |-> 0, projection |-> "identity", view |-> "identity"],
     prefilter  |-> [environmentMap |-> 0, projection |-> "identity", view |-> "identity",
                     roughness |-> Ratio(0, 1)],
     brdf       |-> [none |-> 0]]

\* The context after the sampler uniforms of the capture programs are set.
CaptureStart(units, fb, viewport, writes) ==
    [units |-> units, fb |-> fb, viewport |-> viewport, writes |-> writes,
     program |-> "sky",
     uniforms |-> [CaptureUniforms EXCEPT !.cube.equirectangularMap = 0,
                                          !.irradiance.environmentMap = 0,
                                          !.prefilter.environmentMap = 0],
     log |-> << >>]

\* What a log entry keeps of the context.
Snapshot(g, pass, kind) ==
    [pass |-> pass, kind |-> kind, program |-> g.program,
     uniforms |-> g.uniforms[g.program],
     framebuffer |-> g.fb.bound, color |-> g.fb.color, depth |-> g.fb.depth,
     viewport |-> g.viewport,
     unit0 |-> [cube |-> g.units.cube[0], tex2d |-> g.units.tex2d[0]]]

\* A face or level of a texture as a colour attachment.
Attachment(tex, face, level) == [tex |-> tex, face |-> face, level |-> level]

\* The end of a pass that leaves the capture framebuffer bound.
EndPass_KeepsBound(g, pass) == [g EXCEPT !.log = Append(@, Snapshot(g, pass, "end"))]

\* glBindFramebuffer(GL_FRAMEBUFFER, 0) at the end of a pass, and the entry for it.
EndPass(g, pass) ==
    [g EXCEPT !.fb.bound = 0,
              !.log = Append(@, Snapshot([g EXCEPT !.fb.bound = 0], pass, "end"))]

\* MatrixPerspective(fovy, aspect, 0.01, 1000.0), by the two arguments that vary.
MatrixPerspective(fovy, aspect) == [fovy |-> fovy, aspect |-> aspect]

\* Matrix captureProjection = MatrixPerspective(90.0f, 1.0f, 0.01, 1000.0);
CaptureProjection == MatrixPerspective(90, Ratio(1, 1))

\* Matrix defaultProjection = MatrixPerspective(60.0, GetScreenWidth()/GetScreenHeight(), ...)
DefaultProjection(screen) == MatrixPerspective(60, Ratio(screen[1], screen[2]))

\* Lines 424-473: the capture framebuffer and the cubemap texture are created, and
\* the six faces of the cubemap are rendered from the panorama.
CubemapPass(g, in, env, skyTex, fbo) ==
    LET g1 == [g EXCEPT !.fb = [bound |-> fbo, color |-> Attachment(0, 0, 0),
                                depth |-> <<in.cubemapSize, in.cubemapSize>>],
                        !.units = Bind(BindTexture(@, "cube", env.cubemapId), 0, "tex2d", skyTex.id),
                        !.writes = @ (+) (env.cubemapId :> 6),
                        !.program = "cube",
                        !.uniforms.cube.projection = CaptureProjection,
                        !.viewport = <<0, 0, in.cubemapSize, in.cubemapSize>>]
        Face(i) == [g1 EXCEPT !.uniforms.cube.view = i,
                              !.fb.color = Attachment(env.cubemapId, i, 0)]
    IN  EndPass([Face(5) EXCEPT
                    !.log = @ \o [k \in 1..6 |-> Snapshot(Face(k - 1), "cubemap", "cube")],
                    !.writes = @ (+) (env.cubemapId :> 6)],
                "cubemap")

\* Lines 475-508: the irradiance cubemap is created and its six faces rendered.
IrradiancePass(g, in, env, fbo) ==
    LET g1 == [g EXCEPT !.units = Bind(BindTexture(@, "cube", env.irradianceId),
                                       0, "cube", env.cubemapId),
                        !.writes = @ (+) (env.irradianceId :> 6),
                        !.fb.bound = fbo,
                        !.fb.depth = <<in.irradianceSize, in.irradianceSize>>,
                        !.program = "irradiance",
                        !.uniforms.irradiance.projection = CaptureProjection,
                        !.viewport = <<0, 0, in.irradianceSize, in.irradianceSize>>]
        Face(i) == [g1 EXCEPT !.uniforms.irradiance.view = i,
                              !.fb.color = Attachment(env.irradianceId, i, 0)]
    IN  EndPass([Face(5) EXCEPT
                    !.log = @ \o [k \in 1..6 |-> Snapshot(Face(k - 1), "irradiance", "cube")],
                    !.writes = @ (+) (env.irradianceId :> 6)],
                "irradiance")

\* The prefilter pass with the roughness taken as mip/MAX_MIPMAP_LEVELS.
PrefilterPass_RoughnessOverLevels(g, in, env, fbo) ==
    LET g1 == [g EXCEPT !.units = Bind(BindTexture(@, "cube", env.prefilterId),
                                       0, "cube", env.cubemapId),
                        !.writes = @ (+) (env.prefilterId :> 7),
                        !.program = "prefilter",
                        !.uniforms.prefilter.projection = CaptureProjection,
                        !.fb.bound = fbo]
        Level(mip, i) ==
            [g1 EXCEPT !.fb.depth = <<MipSize(in.prefilterSize, mip), MipSize(in.prefilterSize, mip)>>,
                       !.viewport = <<0, 0, MipSize(in.prefilterSize, mip),
                                      MipSize(in.prefilterSize, mip)>>,
                       !.uniforms.prefilter.roughness = Ratio(mip, MAX_MIPMAP_LEVELS),
                       !.uniforms.prefilter.view = i,
                       !.fb.color = Attachment(env.prefilterId, i, mip)]
    IN  EndPass([Level(MAX_MIPMAP_LEVELS - 1, 5) EXCEPT
                    !.log = @ \o [k \in 1..(MAX_MIPMAP_LEVELS * 6) |->
                                    Snapshot(Level((k - 1) \div 6, (k - 1) % 6), "prefilter", "cube")],
                    !.writes = @ (+) (env.prefilterId :> (MAX_MIPMAP_LEVELS * 6))],
                "prefilter")

\* Lines 510-553: the prefilter cubemap is created with its mip chain, and six
\* faces are rendered for each of the MAX_MIPMAP_LEVELS levels.
PrefilterPass(g, in, env, fbo) ==
    LET g1 == [g EXCEPT !.units = Bind(BindTexture(@, "cube", env.prefilterId),
                                       0, "cube", env.cubemapId),
                        !.writes = @ (+) (env.prefilterId :> 7),
                        !.program = "prefilter",
                        !.uniforms.prefilter.projection = CaptureProjection,
                        !.fb.bound = fbo]
        Level(mip, i) ==
            [g1 EXCEPT !.fb.depth = <<MipSize(in.prefilterSize, mip), MipSize(in.prefilterSize, mip)>>,
                       !.viewport = <<0, 0, MipSize(in.prefilterSize, mip),
                                      MipSize(in.prefilterSize, mip)>>,
                       !.uniforms.prefilter.roughness = Ratio(mip, MAX_MIPMAP_LEVELS - 1),
                       !.uniforms.prefilter.view = i,
                       !.fb.color = Attachment(env.prefilterId, i, mip)]
    IN  EndPass([Level(MAX_MIPMAP_LEVELS - 1, 5) EXCEPT
                    !.log = @ \o [k \in 1..(MAX_MIPMAP_LEVELS * 6) |->
                                    Snapshot(Level((k - 1) \div 6, (k - 1) % 6), "prefilter", "cube")],
                    !.writes = @ (+) (env.prefilterId :> (MAX_MIPMAP_LEVELS * 6))],
                "prefilter")

\* Lines 555-576: the BRDF texture is created and the quad rendered into it.
BrdfPass(g, in, env, fbo) ==
    LET g1 == [g EXCEPT !.units = BindTexture(@, "tex2d", env.brdfId),
                        !.writes = @ (+) (env.brdfId :> 2),
                        !.fb = [bound |-> fbo, color |-> Attachment(env.brdfId, -1, 0),
                                depth |-> <<in.brdfSize, in.brdfSize>>],
                        !.viewport = <<0, 0, in.brdfSize, in.brdfSize>>,
                        !.program = "brdf"]
    IN  EndPass([g1 EXCEPT !.log = Append(@, Snapshot(g1, "brdf", "quad"))], "brdf")

\* The end of LoadEnvironment without the glViewport call of line 588.
FinishCapture_KeepsViewport(g, in) ==
    [g EXCEPT !.uniforms.cube.projection = DefaultProjection(in.screen),
              !.uniforms.irradiance.projection = DefaultProjection(in.screen),
              !.uniforms.prefilter.projection = DefaultProjection(in.screen),
              !.program = "prefilter"]

\* Lines 578-588: the window's projection goes to the capture programs, and the
\* viewport back to the window.
FinishCapture(g, in) ==
    [g EXCEPT !.uniforms.cube.projection = DefaultProjection(in.screen),
              !.uniforms.irradiance.projection = DefaultProjection(in.screen),
              !.uniforms.prefilter.projection = DefaultProjection(in.screen),
              !.program = "prefilter",
              !.viewport = <<0, 0, in.screen[1], in.screen[2]>>]

\* LoadEnvironment with the irradiance pass made before the cubemap pass.
LoadEnvironmentCapture_IrradianceFirst(units, fb, viewport, writes, in, env, skyTex, fbo) ==
    FinishCapture(
        BrdfPass(
            PrefilterPass(
                CubemapPass(
                    IrradiancePass(CaptureStart(units, fb, viewport, writes), in, env, fbo),
                    in, env, skyTex, fbo),
                in, env, fbo),
            in, env, fbo),
        in)

\* The context in which LoadEnvironment returns, with the log of the call.
LoadEnvironmentCapture(units, fb, viewport, writes, in, env, skyTex, fbo) ==
    FinishCapture(
        BrdfPass(
            PrefilterPass(
                IrradiancePass(
                    CubemapPass(CaptureStart(units, fb, viewport, writes), in, env, skyTex, fbo),
                    in, env, fbo),
                in, env, fbo),
            in, env, fbo),
        in)

----------------------------------------------------------------------------
(* pbrcore.h: environment, as far as programs and textures go *)

\* LoadTexture that gives a texture whatever the file holds.
LoadPanorama_AlwaysDecodes(nt, in) == [id |-> nt + 1, width |-> 64, height |-> 32]

\* Texture2D skyTex = LoadTexture(filename): the zero texture when the file cannot
\* be decoded.
LoadPanorama(nt, in) ==
    IF in.decodes THEN [id |-> nt + 1, width |-> 64, height |-> 32] ELSE ZeroTexture

\* Environment LoadEnvironment(...): the six programs are created in the order
\* pbr, cube, irradiance, prefilter, brdf, sky; the four capture programs are
\* unloaded before returning.  Textures: the panorama, then cubemap, irradiance,
\* prefilter and BRDF.
LoadEnvironmentOp(progs, texs, np, nt, in) ==
    LET pbr == np + 1
        sky == np + 6
        withPbr == [id \in (DOMAIN progs) \cup {pbr} |->
                       IF id = pbr THEN NewProgram("pbr") ELSE progs[id]]
        withSky == [id \in (DOMAIN withPbr) \cup {sky} |->
                       IF id = sky THEN NewProgram("sky") ELSE withPbr[id]]
        s1 == SetShaderValue(withSky, pbr, GetShaderLocation(withSky, pbr, <<"irradianceMap">>), 0)
        s2 == SetShaderValue(s1, pbr, GetShaderLocation(withSky, pbr, <<"prefilterMap">>), 1)
        s3 == SetShaderValue(s2, pbr, GetShaderLocation(withSky, pbr, <<"brdfLUT">>), 2)
        s4 == SetShaderValue(s3, sky, GetShaderLocation(withSky, sky, <<"environmentMap">>), 0)
        s5 == SetShaderValue(s4, sky, GetShaderLocation(withSky, sky, <<"projection">>),
                             DefaultProjection(in.screen))
        env == [pbrShader |-> pbr, skyShader |-> sky,
                cubemapId |-> nt + 2, irradianceId |-> nt + 3,
                prefilterId |-> nt + 4, brdfId |-> nt + 5,
                pbrViewLoc |-> GetShaderLocation(withSky, pbr, <<"viewPos">>),
                skyViewLoc |-> GetShaderLocation(withSky, sky, <<"view">>),
                skyResolutionLoc |-> GetShaderLocation(withSky, sky, <<"resolution">>)]
    IN  [env |-> env, progs |-> s5, skyTex |-> LoadPanorama(nt, in),
         texs |-> texs \cup ((nt + 2)..(nt + 5)) \cup ({LoadPanorama(nt, in).id} \ {0}),
         np |-> np + 6, nt |-> nt + 5]

\* The context in which a LoadEnvironment call returns, with its log, for the names
\* the call gets: the panorama is specified by LoadTexture, and the capture
\* framebuffer has a name that was never used (one is generated per call).
LoadEnvironmentContext(np, nt, units, fb, viewport, writes, in) ==
    LET r == LoadEnvironmentOp(<< >>, {}, np, nt, in)
    IN  LoadEnvironmentCapture(units, fb, viewport,
                               writes (+) SetToBag({r.skyTex.id} \ {0}),
                               in, r.env, r.skyTex, (np \div 6) + 1)

\* The four texture names an Environment holds.
EnvironmentTextures(env) == {env.cubemapId, env.irradianceId, env.prefilterId, env.brdfId}

\* void UnloadEnvironment(Environment env)
UnloadEnvironmentOp(progs, texs, env) ==
    [progs |-> [id \in (DOMAIN progs) \ {env.pbrShader, env.skyShader} |-> progs[id]],
     texs  |-> texs \ {env.cubemapId, env.irradianceId, env.prefilterId, env.brdfId}]

----------------------------------------------------------------------------
(* pbrcore.h: materials *)

\* Conversion of an int to the unsigned char of a Color channel.
Byte(n) == n % 256

\* (Color){ r, g, b, a } with int operands
ColorOf(r, g, b, a) == [r |-> Byte(r), g |-> Byte(g), b |-> Byte(b), a |-> Byte(a)]

\* The member of MaterialPBR a TypePBR value selects in the switch statements.
PropertyOf(type) == Properties[type + 1]

\* The SetShaderValuei calls of SetupMaterialPBR with the units of the emission and
\* height samplers exchanged.
SetupSamplers_SwapsEmissionHeight(progs, shader) ==
    LET s1 == SetShaderValue(progs, shader, GetShaderLocation(progs, shader, <<"albedo.sampler">>), 3)
        s2 == SetShaderValue(s1, shader, GetShaderLocation(progs, shader, <<"normals.sampler">>), 4)
        s3 == SetShaderValue(s2, shader, GetShaderLocation(progs, shader, <<"metalness.sampler">>), 5)
        s4 == SetShaderValue(s3, shader, GetShaderLocation(progs, shader, <<"roughness.sampler">>), 6)
        s5 == SetShaderValue(s4, shader, GetShaderLocation(progs, shader, <<"ao.sampler">>), 7)
        s6 == SetShaderValue(s5, shader, GetShaderLocation(progs, shader, <<"emission.sampler">>), 9)
    IN  SetShaderValue(s6, shader, GetShaderLocation(progs, shader, <<"height.sampler">>), 8)

\* The seven SetShaderValuei calls of SetupMaterialPBR: texture units 3 to 9.
SetupSamplers(progs, shader) ==
    LET s1 == SetShaderValue(progs, shader, GetShaderLocation(progs, shader, <<"albedo.sampler">>), 3)
        s2 == SetShaderValue(s1, shader, GetShaderLocation(progs, shader, <<"normals.sampler">>), 4)
        s3 == SetShaderValue(s2, shader, GetShaderLocation(progs, shader, <<"metalness.sampler">>), 5)
        s4 == SetShaderValue(s3, shader, GetShaderLocation(progs, shader, <<"roughness.sampler">>), 6)
        s5 == SetShaderValue(s4, shader, GetShaderLocation(progs, shader, <<"ao.sampler">>), 7)
        s6 == SetShaderValue(s5, shader, GetShaderLocation(progs, shader, <<"emission.sampler">>), 8)
    IN  SetShaderValue(s6, shader, GetShaderLocation(progs, shader, <<"height.sampler">>), 9)

\* A property without texture, with the given colour.
ConstantProperty(c) == [bitmap |-> ZeroTexture, useBitmap |-> FALSE, color |-> c]

\* SetupMaterialPBR with the metalness and roughness constants exchanged.
SetupMaterialPBROp_SwapsConstants(progs, env, albedo, metalness, roughness) ==
    [mat |-> [albedo    |-> ConstantProperty(albedo),
              normals   |-> ConstantProperty(ColorOf(128, 128, 255, 255)),
              metalness |-> ConstantProperty(ColorOf(roughness, 0, 0, 0)),
              roughness |-> ConstantProperty(ColorOf(metalness, 0, 0, 0)),
              ao        |-> ConstantProperty(ColorOf(255, 255, 255, 255)),
              emission  |-> ConstantProperty(ColorOf(0, 0, 0, 0)),
              height    |-> ConstantProperty(ColorOf(0, 0, 0, 0)),
              env       |-> env],
     progs |-> SetupSamplers(progs, env.pbrShader)]

\* MaterialPBR SetupMaterialPBR(Environment env, Color albedo, int metalness, int roughness):
\* the material returned and the programs afterwards.
SetupMaterialPBROp(progs, env, albedo, metalness, roughness) ==
    [mat |-> [albedo    |-> ConstantProperty(albedo),
              normals   |-> ConstantProperty(ColorOf(128, 128, 255, 255)),
              metalness |-> ConstantProperty(ColorOf(metalness, 0, 0, 0)),
              roughness |-> ConstantProperty(ColorOf(roughness, 0, 0, 0)),
              ao        |-> ConstantProperty(ColorOf(255, 255, 255, 255)),
              emission  |-> ConstantProperty(ColorOf(0, 0, 0, 0)),
              height    |-> ConstantProperty(ColorOf(0, 0, 0, 0)),
              env       |-> env],
     progs |-> SetupSamplers(progs, env.pbrShader)]

\* SetMaterialTexturePBR with the PBR_EMISSION case writing the height property.
SetMaterialTexturePBROp_WrongCase(m, type, texture) ==
    IF type \in TypesPBR
    THEN LET p == IF type = PBR_EMISSION THEN "height" ELSE PropertyOf(type)
         IN  [m EXCEPT ![p].bitmap = texture, ![p].useBitmap = TRUE]
    ELSE m

\* void SetMaterialTexturePBR(MaterialPBR *mat, TypePBR type, Texture2D texture):
\* the material afterwards.
SetMaterialTexturePBROp(m, type, texture) ==
    IF type \in TypesPBR
    THEN [m EXCEPT ![PropertyOf(type)].bitmap = texture,
                   ![PropertyOf(type)].useBitmap = TRUE]
    ELSE m

\* UnsetMaterialTexturePBR without the assignment of the zero texture.
UnsetMaterialTexturePBROp_KeepsBitmap(m, texs, log, type) ==
    IF type \in TypesPBR /\ m[PropertyOf(type)].useBitmap
    THEN LET u == UnloadTextureOp(texs, log, m[PropertyOf(type)].bitmap)
         IN  [mat  |-> [m EXCEPT ![PropertyOf(type)].useBitmap = FALSE],
              texs |-> u.texs, log |-> u.log]
    ELSE [mat |-> m, texs |-> texs, log |-> log]

\* void UnsetMaterialTexturePBR(MaterialPBR *mat, TypePBR type): the material, the
\* live textures and the UnloadTexture history afterwards.
UnsetMaterialTexturePBROp(m, texs, log, type) ==
    IF type \in TypesPBR /\ m[PropertyOf(type)].useBitmap
    THEN LET u == UnloadTextureOp(texs, log, m[PropertyOf(type)].bitmap)
         IN  [mat  |-> [m EXCEPT ![PropertyOf(type)].useBitmap = FALSE,
                                 ![PropertyOf(type)].bitmap = ZeroTexture],
              texs |-> u.texs, log |-> u.log]
    ELSE [mat |-> m, texs |-> texs, log |-> log]

\* UnloadMaterialPBR that also unloads the BRDF texture of the material's environment.
UnloadMaterialPBROp_AlsoBrdf(m, texs, log) ==
    LET Step(acc, p) == IF m[p].useBitmap THEN UnloadTextureOp(acc.texs, acc.log, m[p].bitmap)
                        ELSE acc
    IN  UnloadTextureOp(
            Step(Step(Step(Step(Step(Step(Step([texs |-> texs, log |-> log],
                "albedo"), "normals"), "metalness"), "roughness"), "ao"), "emission"), "height").texs,
            log, [id |-> m.env.brdfId])

\* void UnloadMaterialPBR(MaterialPBR mat): the live textures and the UnloadTexture
\* history afterwards.
UnloadMaterialPBROp(m, texs, log) ==
    LET Step(acc, p) == IF m[p].useBitmap THEN UnloadTextureOp(acc.texs, acc.log, m[p].bitmap)
                        ELSE acc
    IN  Step(Step(Step(Step(Step(Step(Step([texs |-> texs, log |-> log],
            "albedo"), "normals"), "metalness"), "roughness"), "ao"), "emission"), "height")

----------------------------------------------------------------------------
(* pbrcore.h: drawing *)

\* { (float)c.r/(float)255, (float)c.g/(float)255, (float)c.b/(float)255 }
Color3(c) ==
    << FloatDiv(FloatOfByte(c.r), FloatOfByte(255)),
       FloatDiv(FloatOfByte(c.g), FloatOfByte(255)),
       FloatDiv(FloatOfByte(c.b), FloatOfByte(255)) >>

\* { 1.0f - (float)c.r/(float)255, ... }
Complement3(c) ==
    << FloatOfByte(1) - FloatDiv(FloatOfByte(c.r), FloatOfByte(255)),
       FloatOfByte(1) - FloatDiv(FloatOfByte(c.g), FloatOfByte(255)),
       FloatOfByte(1) - FloatDiv(FloatOfByte(c.b), FloatOfByte(255)) >>

\* SetShaderValue(shader, GetShaderLocation(shader, name), value, n)
SetNamed(progs, shader, name, value) ==
    SetShaderValue(progs, shader, GetShaderLocation(progs, shader, name), value)

\* The uniforms of DrawModelPBR with the roughness colour sent like the others.
DrawUniforms_RoughnessPlain(progs, m, transform) ==
    LET sh == m.env.pbrShader
        c1 == SetNamed(progs, sh, <<"albedo.color">>, Color3(m.albedo.color))
        c2 == SetNamed(c1, sh, <<"normals.color">>, Color3(m.normals.color))
        c3 == SetNamed(c2, sh, <<"metalness.color">>, Color3(m.metalness.color))
        c4 == SetNamed(c3, sh, <<"roughness.color">>, Color3(m.roughness.color))
        c5 == SetNamed(c4, sh, <<"ao.color">>, Color3(m.ao.color))
        c6 == SetNamed(c5, sh, <<"emission.color">>, Color3(m.emission.color))
        c7 == SetNamed(c6, sh, <<"height.color">>, Color3(m.height.color))
        u1 == SetNamed(c7, sh, <<"albedo.useSampler">>, BoolToInt(m.albedo.useBitmap))
        u2 == SetNamed(u1, sh, <<"normals.useSampler">>, BoolToInt(m.normals.useBitmap))
        u3 == SetNamed(u2, sh, <<"metalness.useSampler">>, BoolToInt(m.metalness.useBitmap))
        u4 == SetNamed(u3, sh, <<"roughness.useSampler">>, BoolToInt(m.roughness.useBitmap))
        u5 == SetNamed(u4, sh, <<"ao.useSampler">>, BoolToInt(m.ao.useBitmap))
        u6 == SetNamed(u5, sh, <<"emission.useSampler">>, BoolToInt(m.emission.useBitmap))
        u7 == SetNamed(u6, sh, <<"height.useSampler">>, BoolToInt(m.height.useBitmap))
    IN  SetNamed(u7, sh, <<"mMatrix">>, transform)

\* Lines 640-672 of DrawModelPBR: the colours, the useSampler flags and the model matrix.
DrawUniforms(progs, m, transform) ==
    LET sh == m.env.pbrShader
        c1 == SetNamed(progs, sh, <<"albedo.color">>, Color3(m.albedo.color))
        c2 == SetNamed(c1, sh, <<"normals.color">>, Color3(m.normals.color))
        c3 == SetNamed(c2, sh, <<"metalness.color">>, Color3(m.metalness.color))
        c4 == SetNamed(c3, sh, <<"roughness.color">>, Complement3(m.roughness.color))
        c5 == SetNamed(c4, sh, <<"ao.color">>, Color3(m.ao.color))
        c6 == SetNamed(c5, sh, <<"emission.color">>, Color3(m.emission.color))
        c7 == SetNamed(c6, sh, <<"height.color">>, Color3(m.height.color))
        u1 == SetNamed(c7, sh, <<"albedo.useSampler">>, BoolToInt(m.albedo.useBitmap))
        u2 == SetNamed(u1, sh, <<"normals.useSampler">>, BoolToInt(m.normals.useBitmap))
        u3 == SetNamed(u2, sh, <<"metalness.useSampler">>, BoolToInt(m.metalness.useBitmap))
        u4 == SetNamed(u3, sh, <<"roughness.useSampler">>, BoolToInt(m.roughness.useBitmap))
        u5 == SetNamed(u4, sh, <<"ao.useSampler">>, BoolToInt(m.ao.useBitmap))
        u6 == SetNamed(u5, sh, <<"emission.useSampler">>, BoolToInt(m.emission.useBitmap))
        u7 == SetNamed(u6, sh, <<"height.useSampler">>, BoolToInt(m.height.useBitmap))
    IN  SetNamed(u7, sh, <<"mMatrix">>, transform)

\* A draw call that writes to the colour attachment of the capture framebuffer
\* whatever framebuffer is bound.
RenderInto_CaptureAttachment(writes, fb) == writes (+) SetToBag({fb.color.tex})

\* A draw call writes to the colour attachment of the bound framebuffer; the
\* window's framebuffer (0) has no texture.
RenderInto(writes, fb) ==
    IF fb.bound = 0 THEN writes ELSE writes (+) SetToBag({fb.color.tex})

\* The binds of DrawModelPBR with the height bitmap on GL_TEXTURE8.
DrawBinds_HeightOnUnit8(units, m) ==
    LET b0 == Bind(units, 0, "cube", m.env.irradianceId)
        b1 == Bind(b0, 1, "cube", m.env.prefilterId)
        b2 == Bind(b1, 2, "tex2d", m.env.brdfId)
        b3 == BindIf(b2, m.albedo.useBitmap, 3, m.albedo.bitmap.id)
        b4 == BindIf(b3, m.normals.useBitmap, 4, m.normals.bitmap.id)
        b5 == BindIf(b4, m.metalness.useBitmap, 5, m.metalness.bitmap.id)
        b6 == BindIf(b5, m.roughness.useBitmap, 6, m.roughness.bitmap.id)
        b7 == BindIf(b6, m.ao.useBitmap, 7, m.ao.bitmap.id)
        b8 == BindIf(b7, m.emission.useBitmap, 8, m.emission.bitmap.id)
    IN  BindIf(b8, m.height.useBitmap, 8, m.height.bitmap.id)

\* Lines 674-733: the units as they are when DrawModelEx is called.
DrawBinds(units, m) ==
    LET b0 == Bind(units, 0, "cube", m.env.irradianceId)
        b1 == Bind(b0, 1, "cube", m.env.prefilterId)
        b2 == Bind(b1, 2, "tex2d", m.env.brdfId)
        b3 == BindIf(b2, m.albedo.useBitmap, 3, m.albedo.bitmap.id)
        b4 == BindIf(b3, m.normals.useBitmap, 4, m.normals.bitmap.id)
        b5 == BindIf(b4, m.metalness.useBitmap, 5, m.metalness.bitmap.id)
        b6 == BindIf(b5, m.roughness.useBitmap, 6, m.roughness.bitmap.id)
        b7 == BindIf(b6, m.ao.useBitmap, 7, m.ao.bitmap.id)
        b8 == BindIf(b7, m.emission.useBitmap, 8, m.emission.bitmap.id)
    IN  BindIf(b8, m.height.useBitmap, 9, m.height.bitmap.id)

\* The unbinds of DrawModelPBR with the height block selecting GL_TEXTURE9.
DrawUnbinds_HeightOnUnit9(units, m) ==
    LET u0 == Bind(units, 0, "cube", 0)
        u1 == Bind(u0, 1, "cube", 0)
        u2 == Bind(u1, 2, "tex2d", 0)
        u3 == BindIf(u2, m.albedo.useBitmap, 3, 0)
        u4 == BindIf(u3, m.normals.useBitmap, 4, 0)
        u5 == BindIf(u4, m.metalness.useBitmap, 5, 0)
        u6 == BindIf(u5, m.roughness.useBitmap, 6, 0)
        u7 == BindIf(u6, m.ao.useBitmap, 7, 0)
    IN  BindIf(u7, m.height.useBitmap, 9, 0)

\* Lines 738-790: the units as DrawModelPBR leaves them.  There is no block for
\* the emission property, and the block of the height property selects GL_TEXTURE8.
DrawUnbinds(units, m) ==
    LET u0 == Bind(units, 0, "cube", 0)
        u1 == Bind(u0, 1, "cube", 0)
        u2 == Bind(u1, 2, "tex2d", 0)
        u3 == BindIf(u2, m.albedo.useBitmap, 3, 0)
        u4 == BindIf(u3, m.normals.useBitmap, 4, 0)
        u5 == BindIf(u4, m.metalness.useBitmap, 5, 0)
        u6 == BindIf(u5, m.roughness.useBitmap, 6, 0)
        u7 == BindIf(u6, m.ao.useBitmap, 7, 0)
    IN  BindIf(u7, m.height.useBitmap, 8, 0)

\* void DrawSkybox(Environment env, Camera camera): programs and units afterwards.
DrawSkyboxOp(progs, units, env, view) ==
    [progs |-> SetShaderValue(progs, env.skyShader, env.skyViewLoc, view),
     units |-> Bind(units, 0, "cube", env.cubemapId)]

\* void UpdateEnvironmentValues(Environment env, Camera camera, Vector2 res)
UpdateEnvironmentValuesOp(progs, env, cameraPos, res) ==
    SetShaderValue(SetShaderValue(progs, env.pbrShader, env.pbrViewLoc, cameraPos),
                   env.skyShader, env.skyResolutionLoc, res)

----------------------------------------------------------------------------
(* The host of the light functions *)

EnvLive == environment.pbrShader \in DOMAIN glPrograms

NumLoads == nextProgram \div 6

Init ==
    /\ lightsCount = 0
    /\ glPrograms = << >>
    /\ glTextures = {}
    /\ nextProgram = 0
    /\ nextTexture = 0
    /\ environment = ZeroEnvironment
    /\ lights = << >>
    /\ madeOn = << >>
    /\ passedPos = << >>
    /\ mat = ZeroMaterial
    /\ unloadCalls = EmptyBag
    /\ call = [op |-> "none"]
    /\ glUnits = NoUnits
    /\ glFramebuffer = [bound |-> 0, color |-> Attachment(0, 0, 0), depth |-> <<0, 0>>]
    /\ glViewport = <<0, 0, ViewerArgs.screen[1], ViewerArgs.screen[2]>>
    /\ texWrites = EmptyBag
    /\ loadArgs = NoArgs
    /\ viewer = ViewerOff

\* environment = LoadEnvironment(file, cubemapSize, irradianceSize, prefilterSize, brdfSize);
\* the capture framebuffer gets a name that was never used.
LoadEnvironment(in) ==
    /\ ~EnvLive
    /\ NumLoads < MaxLoads
    /\ LET r == LoadEnvironmentOp(glPrograms, glTextures, nextProgram, nextTexture, in)
           g == LoadEnvironmentContext(nextProgram, nextTexture, glUnits, glFramebuffer,
                                       glViewport, texWrites, in)
       IN  /\ environment' = r.env
           /\ glPrograms' = r.progs
           /\ glTextures' = r.texs
           /\ nextProgram' = r.np
           /\ nextTexture' = r.nt
           /\ glUnits' = g.units
           /\ glFramebuffer' = g.fb
           /\ glViewport' = g.viewport
           /\ texWrites' = g.writes
    /\ loadArgs' = in
    /\ UNCHANGED <<lightsCount, lightVars, materialVars, viewer>>

\* UnloadEnvironment that also forgets the lights.
UnloadEnvironment_ResetsCount ==
    /\ EnvLive
    /\ LET r == UnloadEnvironmentOp(glPrograms, glTextures, environment)
       IN  /\ glPrograms' = r.progs
           /\ glTextures' = r.texs
    /\ glUnits' = DeleteTextures(glUnits, EnvironmentTextures(environment))
    /\ lightsCount' = 0
    /\ UNCHANGED <<environment, nextProgram, nextTexture, lightVars, materialVars, captureVars, viewer>>

UnloadEnvironment ==
    /\ EnvLive
    /\ LET r == UnloadEnvironmentOp(glPrograms, glTextures, environment)
       IN  /\ glPrograms' = r.progs
           /\ glTextures' = r.texs
    /\ glUnits' = DeleteTextures(glUnits, EnvironmentTextures(environment))
    /\ UNCHANGED <<lightsCount, environment, nextProgram, nextTexture, lightVars, materialVars,
                   captureVars, viewer>>

CreateLight(in) ==
    /\ EnvLive
    /\ Len(lights) < MaxCreateCalls
    /\ LET r == CreateLightOp(lightsCount, glPrograms, in, environment)
       IN  /\ lightsCount' = r.count
           /\ glPrograms' = r.progs
           /\ lights' = Append(lights, r.light)
           /\ madeOn' = Append(madeOn, environment.pbrShader)
           /\ passedPos' = IF Len(passedPos) < MAX_LIGHTS THEN Append(passedPos, in.pos)
                           ELSE passedPos
    /\ UNCHANGED <<glTextures, nextProgram, nextTexture, environment, materialVars,
                   glUnits, captureVars, viewer>>

\* UpdateLightValues(environment, lights[i]) for i < GetLightsCount()
UpdateLightValues(i) ==
    /\ EnvLive
    /\ i < Min(GetLightsCount, Len(lights))
    /\ glPrograms' = UpdateLightValuesOp(glPrograms, environment, lights[i + 1])
    /\ UNCHANGED <<lightsCount, glTextures, nextProgram, nextTexture, environment, lightVars,
                   materialVars, glUnits, captureVars, viewer>>

\* rpbr.c:991 and 1010 (DrawLightInterface): the host edits the enabled flag of its
\* own Light value and sends the light to the shader; the colour sliders stay put.
ToggleLight(i, b) ==
    /\ EnvLive
    /\ i < Min(GetLightsCount, Len(lights))
    /\ lights[i + 1].enabled # b
    /\ LET edited == [lights[i + 1] EXCEPT !.enabled = b]
       IN  /\ lights' = [lights EXCEPT ![i + 1] = edited]
           /\ glPrograms' = UpdateLightValuesOp(glPrograms, environment, edited)
    /\ UNCHANGED <<lightsCount, glTextures, nextProgram, nextTexture, environment, madeOn,
                   passedPos, materialVars, glUnits, captureVars, viewer>>

Next ==
    \/ LoadEnvironment(ViewerArgs)
    \/ UnloadEnvironment
    \/ \E in \in LightInputs : CreateLight(in)
    \/ \E i \in 0..(MAX_LIGHTS - 1) : UpdateLightValues(i)
    \/ \E i \in 0..(MAX_LIGHTS - 1), b \in BOOLEAN : ToggleLight(i, b)

Spec == Init /\ [][Next]_vars

----------------------------------------------------------------------------
(* The host of the material functions.  It sets a material up on its live      *)
(* environment before it attaches textures to it, and every texture it passes  *)
(* to SetMaterialTexturePBR is the result of a LoadTexture call of its own     *)
(* (rpbr.c:313, 491-493).                                                      *)

MaterialSetUp == call.op # "none"

\* Textures obtained from LoadTexture so far (the others are the environments').
TexturesLoaded == nextTexture - 5 * NumLoads

\* matPBR = SetupMaterialPBR(environment, albedo, metalness, roughness);
SetupMaterialPBR(in) ==
    /\ EnvLive
    /\ LET r == SetupMaterialPBROp(glPrograms, environment, in.albedo, in.metalness, in.roughness)
       IN  /\ mat' = r.mat
           /\ glPrograms' = r.progs
    /\ call' = [op |-> "Setup", in |-> in]
    /\ UNCHANGED <<lightsCount, glTextures, nextProgram, nextTexture, environment,
                   lightVars, unloadCalls, glUnits, captureVars, viewer>>

\* SetMaterialTexturePBR(&matPBR, type, LoadTexture(file));
SetMaterialTexturePBR(type) ==
    /\ MaterialSetUp
    /\ TexturesLoaded < MaxTextures
    /\ LET t == LoadTextureOp(glTextures, nextTexture)
       IN  /\ glTextures' = t.texs
           /\ nextTexture' = t.nt
           /\ mat' = SetMaterialTexturePBROp(mat, type, t.texture)
           /\ call' = [op |-> "Set", type |-> type, texture |-> t.texture,
                       previous |-> mat[PropertyOf(type)]]
    /\ UNCHANGED <<lightsCount, glPrograms, nextProgram, environment, lightVars, unloadCalls,
                   glUnits, captureVars, viewer>>

\* UnsetMaterialTexturePBR(&matPBR, type);
UnsetMaterialTexturePBR(type) ==
    /\ MaterialSetUp
    /\ LET r == UnsetMaterialTexturePBROp(mat, glTextures, unloadCalls, type)
       IN  /\ mat' = r.mat
           /\ glTextures' = r.texs
           /\ unloadCalls' = r.log
           /\ glUnits' = DeleteTextures(glUnits, glTextures \ r.texs)
    /\ call' = [op |-> "Unset", type |-> type]
    /\ UNCHANGED <<lightsCount, glPrograms, nextProgram, nextTexture, environment, lightVars,
                   captureVars, viewer>>

NextMaterial ==
    \/ LoadEnvironment(ViewerArgs)
    \/ UnloadEnvironment
    \/ \E in \in MaterialInputs : SetupMaterialPBR(in)
    \/ \E type \in TypesPBR : SetMaterialTexturePBR(type)
    \/ \E type \in TypesPBR : UnsetMaterialTexturePBR(type)

SpecMaterial == Init /\ [][NextMaterial]_vars

----------------------------------------------------------------------------
(* The host of the draw functions.  It draws with a material that was set up   *)
(* on its live environment (rpbr.c:311, 443, 660), and DrawModelEx, which is   *)
(* raylib's, is taken to leave the bindings of DrawModelPBR as they are.       *)

\* The arguments of rpbr.c:311 and 443.
ViewerMaterial ==
    [albedo |-> [r |-> 255, g |-> 255, b |-> 255, a |-> 255], metalness |-> 255, roughness |-> 255]

\* Camera positions, as values that are only copied.
ViewerCamera == <<0, 0, 5>>
Cameras == { ViewerCamera, <<3, 2, 1>> }

\* DrawModelPBR(model, matPBR, position, rotationAxis, rotationAngle, scale);
\* call.atDraw is the state of the units when DrawModelEx is called, and
\* call.atReturn their state when DrawModelPBR returns.
DrawModelPBR ==
    /\ MaterialSetUp
    /\ EnvLive
    /\ mat.env = environment
    /\ glPrograms' = DrawUniforms(glPrograms, mat, "transform")
    /\ glUnits' = DrawUnbinds(DrawBinds(glUnits, mat), mat)
    /\ texWrites' = RenderInto(texWrites, glFramebuffer)
    /\ call' = [op |-> "Draw", atDraw |-> DrawBinds(glUnits, mat), atReturn |-> glUnits']
    /\ UNCHANGED <<lightsCount, glTextures, nextProgram, nextTexture, environment, lightVars,
                   mat, unloadCalls, glFramebuffer, glViewport, loadArgs, viewer>>

\* DrawSkybox(environment, camera);
DrawSkybox(camera) ==
    /\ EnvLive
    /\ LET r == DrawSkyboxOp(glPrograms, glUnits, environment, camera)
       IN  /\ glPrograms' = r.progs
           /\ glUnits' = r.units
    /\ texWrites' = RenderInto(texWrites, glFramebuffer)
    /\ UNCHANGED <<lightsCount, glTextures, nextProgram, nextTexture, environment, lightVars,
                   materialVars, glFramebuffer, glViewport, loadArgs, viewer>>

\* rpbr.c:307-311 and 439-443: the material is set up once on the environment
\* just loaded.
SetupViewerMaterial ==
    /\ mat.env # environment
    /\ SetupMaterialPBR(ViewerMaterial)

NextDraw ==
    \/ LoadEnvironment(ViewerArgs)
    \/ SetupViewerMaterial
    \/ \E type \in TypesPBR : SetMaterialTexturePBR(type)
    \/ \E type \in TypesPBR : UnsetMaterialTexturePBR(type)
    \/ DrawModelPBR
    \/ DrawSkybox(ViewerCamera)

SpecDraw == Init /\ [][NextDraw]_vars

----------------------------------------------------------------------------
(* The host of LoadEnvironment: it loads with any arguments, draws with the    *)
(* material it has set up, and swaps the environment (rpbr.c:436-443).         *)

NextLoad ==
    \/ \E in \in LoadInputs : LoadEnvironment(in)
    \/ UnloadEnvironment
    \/ SetupViewerMaterial
    \/ DrawModelPBR
    \/ DrawSkybox(ViewerCamera)

SpecLoad == Init /\ [][NextLoad]_vars

----------------------------------------------------------------------------
(* The host of a whole session: every function of the library that takes an    *)
(* Environment or a MaterialPBR, called as the viewer calls them.  After       *)
(* UnloadMaterialPBR the viewer makes no call with the material it has         *)
(* unloaded (rpbr.c:756-760).                                                  *)

\* UpdateEnvironmentValues(environment, camera, screenRes);
UpdateEnvironmentValues(camera, res) ==
    /\ EnvLive
    /\ glPrograms' = UpdateEnvironmentValuesOp(glPrograms, environment, camera, res)
    /\ UNCHANGED <<lightsCount, glTextures, nextProgram, nextTexture, environment, lightVars,
                   materialVars, glUnits, captureVars, viewer>>

\* UnloadMaterialPBR(matPBR);
UnloadMaterialPBR ==
    /\ MaterialSetUp
    /\ LET r == UnloadMaterialPBROp(mat, glTextures, unloadCalls)
       IN  /\ glTextures' = r.texs
           /\ unloadCalls' = r.log
           /\ glUnits' = DeleteTextures(glUnits, glTextures \ r.texs)
    /\ call' = [op |-> "Unload"]
    /\ UNCHANGED <<lightsCount, glPrograms, nextProgram, nextTexture, environment, lightVars,
                   mat, captureVars, viewer>>

\* The material was not unloaded since it was set up.
MaterialInUse == call.op # "Unload"

\* One environment, one light and the albedo and height textures are enough for
\* every function to be called.
NextFrame ==
    \/ NumLoads = 0 /\ LoadEnvironment(ViewerArgs)
    \/ UnloadEnvironment
    \/ SetupViewerMaterial
    \/ MaterialInUse /\ \E type \in {PBR_ALBEDO, PBR_HEIGHT} : SetMaterialTexturePBR(type)
    \/ MaterialInUse /\ \E type \in {PBR_ALBEDO, PBR_HEIGHT} : UnsetMaterialTexturePBR(type)
    \/ MaterialInUse /\ DrawModelPBR
    \/ MaterialInUse /\ UnloadMaterialPBR
    \/ lights = << >> /\ CreateLight(CHOOSE in \in LightInputs : in.type = LIGHT_POINT)
    \/ UpdateLightValues(0)
    \/ UpdateEnvironmentValues(ViewerCamera, ViewerArgs.screen)
    \/ DrawSkybox(ViewerCamera)

SpecFrame == Init /\ [][NextFrame]_vars

----------------------------------------------------------------------------
(* The host of the material constants: it sets its material up with any        *)
(* roughness constant a colour byte can hold, and then draws with it frame     *)
(* after frame (rpbr.c:311, 660).                                              *)

\* Arguments of SetupMaterialPBR with each roughness constant of 0..255, the
\* metalness and the albedo varying with it.
ColourInputs ==
    { [albedo |-> [r |-> r, g |-> (2 * r) % 256, b |-> 255 - r, a |-> 255],
       metalness |-> 255 - r, roughness |-> r] : r \in 0..255 }

NextColour ==
    \/ LoadEnvironment(ViewerArgs)
    \/ call.op # "Draw" /\ \E in \in ColourInputs : SetupMaterialPBR(in)
    \/ DrawModelPBR

SpecColour == Init /\ [][NextColour]_vars

----------------------------------------------------------------------------
(* rpbr.c: the viewer.  main is a start-up sequence, a loop of frames and a    *)
(* shutdown sequence.  A frame is an update phase (scene reset, file drop,     *)
(* lights movement, delete click, UpdateEnvironmentValues) and a draw phase    *)
(* (the 3D pass, then the interface).  viewer.pc is the position of main in    *)
(* that sequence, and each step below is one block of main, taken whole.  The  *)
(* post-processing shader, the render mode, the camera controls and the mesh   *)
(* of the model are not part of the state.  UnloadModel is raylib's: it        *)
(* deletes the mesh and the textures of model.material, whose ids are 0 here   *)
(* (Material material = { 0 }), and leaves the shader of the material alone.   *)

\* Events the viewer takes after start-up: dropped files.
MaxDrops == 2

\* LIGHT_DISTANCE (3.5f) and LIGHT_HEIGHT (1.0f), in halves of a unit.
LIGHT_DISTANCE == 7
LIGHT_HEIGHT == 2

\* The PATH_TEXTURES_x rpbr.c defines (lines 67-70); the three others are
\* commented out.
StartupTextures == <<PBR_ALBEDO, PBR_NORMALS, PBR_METALNESS, PBR_ROUGHNESS>>

\* The four CreateLight calls of rpbr.c:362-367.
ViewerLights ==
    << [type |-> LIGHT_POINT, pos |-> <<LIGHT_DISTANCE, LIGHT_HEIGHT, 0>>, targ |-> Zero3,
        color |-> [r |-> 255, g |-> 0, b |-> 0, a |-> 255]],
       [type |-> LIGHT_POINT, pos |-> <<0, LIGHT_HEIGHT, LIGHT_DISTANCE>>, targ |-> Zero3,
        color |-> [r |-> 0, g |-> 255, b |-> 0, a |-> 255]],
       [type |-> LIGHT_POINT, pos |-> <<0 - LIGHT_DISTANCE, LIGHT_HEIGHT, 0>>, targ |-> Zero3,
        color |-> [r |-> 0, g |-> 0, b |-> 255, a |-> 255]],
       [type |-> LIGHT_DIRECTIONAL, pos |-> <<0, LIGHT_HEIGHT * 2, 0 - LIGHT_DISTANCE>>,
        targ |-> Zero3, color |-> [r |-> 255, g |-> 0, b |-> 255, a |-> 255]] >>

\* The texture slots of the interface a file is dropped on or a click lands on:
\* one that has a texture from start-up and one that has none.
Slots == {PBR_ALBEDO, PBR_EMISSION}

\* The lights whose interface is opened.
SelectableLights == {0}

\* Light angles the mouse reaches, in quarter turns.
Quarters == 0..1

\* cosf and sinf at k quarter turns.
CosQ(k) == CASE k % 4 = 0 -> 1 [] k % 4 = 2 -> 0 - 1 [] OTHER -> 0
SinQ(k) == CosQ(k + 3)

\* rpbr.c:416-419 and 551-554: light i on its orbit at lightAngle q.
Orbit(light, q, i) ==
    [light EXCEPT !.position = <<LIGHT_DISTANCE * CosQ(q + i), @[2], LIGHT_DISTANCE * SinQ(q + i)>>]

\* SetMaterialTexturePBR(&matPBR, type, LoadTexture(PATH)); textures[type] =
\* matPBR.<property>.bitmap; for the types of a sequence (rpbr.c:312-346).
RECURSIVE LoadStartupTextures(_, _)
LoadStartupTextures(acc, types) ==
    IF types = << >> THEN acc
    ELSE LET t == LoadTextureOp(acc.texs, acc.nt)
             m == SetMaterialTexturePBROp(acc.mat, Head(types), t.texture)
         IN  LoadStartupTextures(
                 [mat |-> m, texs |-> t.texs, nt |-> t.nt,
                  textures |-> [acc.textures EXCEPT ![Head(types)] = m[PropertyOf(Head(types))].bitmap]],
                 Tail(types))

\* The CreateLight calls of the initialiser of lights[] (rpbr.c:362-367).
RECURSIVE CreateLights(_, _, _)
CreateLights(acc, ins, env) ==
    IF ins = << >> THEN acc
    ELSE LET r == CreateLightOp(acc.count, acc.progs, Head(ins), env)
         IN  CreateLights([count |-> r.count, progs |-> r.progs,
                           lights |-> Append(acc.lights, r.light)], Tail(ins), env)

\* if (textures[X].id != 0) SetMaterialTexturePBR(&matPBR, X, textures[X]); for
\* the seven types (rpbr.c:446-452).
RECURSIVE ReapplyTextures(_, _, _)
ReapplyTextures(m, textures, type) ==
    IF type > PBR_HEIGHT THEN m
    ELSE ReapplyTextures(IF textures[type].id # 0
                         THEN SetMaterialTexturePBROp(m, type, textures[type])
                         ELSE m,
                         textures, type + 1)

\* for (i < totalLights) { lights[i].position = orbit; UpdateLightValues(environment, lights[i]); }
RECURSIVE OrbitLights(_, _, _, _)
OrbitLights(acc, q, i, total) ==
    IF i >= total THEN acc
    ELSE LET moved == Orbit(acc.lights[i + 1], q, i)
         IN  OrbitLights([lights |-> [acc.lights EXCEPT ![i + 1] = moved],
                          progs |-> UpdateLightValuesOp(acc.progs, environment, moved)],
                         q, i + 1, total)

\* LoadEnvironment as the viewer calls it, from given programs, textures and units.
ViewerLoad(progs, texs, units, in) ==
    [r |-> LoadEnvironmentOp(progs, texs, nextProgram, nextTexture, in),
     g |-> LoadEnvironmentContext(nextProgram, nextTexture, units, glFramebuffer, glViewport,
                                  texWrites, in)]

\* rpbr.c:279-378: the environment, the material with its start-up textures, the
\* material of the model, the four lights and the resolution of the sky shader.
ViewerBoot ==
    /\ viewer.pc = "boot"
    /\ \E l \in {ViewerLoad(glPrograms, glTextures, glUnits, ViewerArgs)} :
       \E s \in {SetupMaterialPBROp(l.r.progs, l.r.env, ViewerMaterial.albedo,
                                    ViewerMaterial.metalness, ViewerMaterial.roughness)} :
       \E t \in {LoadStartupTextures([mat |-> s.mat, texs |-> l.r.texs, nt |-> l.r.nt,
                                      textures |-> viewer.textures], StartupTextures)} :
       \E c \in {CreateLights([count |-> lightsCount, progs |-> s.progs, lights |-> << >>],
                              ViewerLights, l.r.env)} :
          /\ environment' = l.r.env
          /\ nextProgram' = l.r.np
          /\ glUnits' = l.g.units
          /\ glFramebuffer' = l.g.fb
          /\ glViewport' = l.g.viewport
          /\ texWrites' = l.g.writes
          /\ mat' = t.mat
          /\ glTextures' = t.texs
          /\ nextTexture' = t.nt
          /\ lightsCount' = c.count
          /\ lights' = c.lights
          /\ madeOn' = [i \in 1..Len(ViewerLights) |-> l.r.env.pbrShader]
          /\ passedPos' = [i \in 1..Len(ViewerLights) |-> ViewerLights[i].pos]
          /\ glPrograms' = SetShaderValue(c.progs, l.r.env.skyShader, l.r.env.skyResolutionLoc,
                                          ViewerArgs.screen)
          /\ viewer' = [viewer EXCEPT !.pc = "reset", !.textures = t.textures,
                                      !.material = t.mat.env.pbrShader,
                                      !.shader = t.mat.env.pbrShader,
                                      !.totalLights = c.count,
                                      !.images = {t.textures[type].id : type \in TypesPBR} \ {0}]
    /\ loadArgs' = ViewerArgs
    /\ UNCHANGED <<unloadCalls, call>>

\* What a step of the frame leaves alone.
libraryLights == <<lightsCount, lights, madeOn, passedPos>>
libraryObjects == <<glTextures, nextProgram, nextTexture, environment, mat, unloadCalls>>
frameVars == <<call, glFramebuffer, glViewport, texWrites, loadArgs>>

\* rpbr.c:380 and 750-767: the window is closed; UnloadModel, UnloadMaterialPBR
\* and UnloadEnvironment, in that order.
ViewerClose ==
    /\ viewer.pc = "reset"
    /\ \E m \in {UnloadMaterialPBROp(mat, glTextures, unloadCalls)} :
       \E e \in {UnloadEnvironmentOp(glPrograms, m.texs, environment)} :
          /\ glTextures' = e.texs
          /\ glPrograms' = e.progs
          /\ unloadCalls' = m.log
          /\ glUnits' = DeleteTextures(glUnits, glTextures \ e.texs)
    /\ viewer' = [viewer EXCEPT !.pc = "closed"]
    /\ UNCHANGED <<libraryLights, nextProgram, nextTexture, environment, mat, frameVars>>

\* rpbr.c:401-428: if (resetScene) the lights go back to angle 0 and are sent.
ViewerReset(reset) ==
    /\ viewer.pc = "reset"
    /\ \E o \in {IF reset THEN OrbitLights([lights |-> lights, progs |-> glPrograms], 0, 0,
                                           viewer.totalLights)
                 ELSE [lights |-> lights, progs |-> glPrograms]} :
          /\ lights' = o.lights
          /\ glPrograms' = o.progs
    /\ viewer' = [viewer EXCEPT !.pc = "drop"]
    /\ UNCHANGED <<lightsCount, madeOn, passedPos, libraryObjects, glUnits, frameVars>>

\* rpbr.c:430: no file is dropped, or one that is no .hdr, no .obj and no image
\* over a texture slot.
NoDrop ==
    /\ viewer.pc = "drop"
    /\ viewer' = [viewer EXCEPT !.pc = "move"]
    /\ UNCHANGED <<libraryLights, glPrograms, libraryObjects, glUnits, frameVars>>

\* rpbr.c:436-458: the environment is replaced, the material is set up on the new
\* one with the textures of textures[], and the model gets its shader.
DropHdr(decodes) ==
    /\ viewer.pc = "drop"
    /\ viewer.drops < MaxDrops
    /\ \E in \in {[ViewerArgs EXCEPT !.decodes = decodes]} :
       \E u \in {UnloadEnvironmentOp(glPrograms, glTextures, environment)} :
       \E l \in {ViewerLoad(u.progs, u.texs,
                            DeleteTextures(glUnits, EnvironmentTextures(environment)), in)} :
       \E s \in {SetupMaterialPBROp(
                     SetShaderValue(l.r.progs, l.r.env.skyShader, l.r.env.skyResolutionLoc,
                                    ViewerArgs.screen),
                     l.r.env, ViewerMaterial.albedo, ViewerMaterial.metalness,
                     ViewerMaterial.roughness)} :
       \E m \in {ReapplyTextures(s.mat, viewer.textures, PBR_ALBEDO)} :
          /\ environment' = l.r.env
          /\ glTextures' = l.r.texs
          /\ nextProgram' = l.r.np
          /\ nextTexture' = l.r.nt
          /\ glUnits' = l.g.units
          /\ glFramebuffer' = l.g.fb
          /\ glViewport' = l.g.viewport
          /\ texWrites' = l.g.writes
          /\ loadArgs' = in
          /\ glPrograms' = s.progs
          /\ mat' = m
          /\ viewer' = [viewer EXCEPT !.pc = "move", !.event = "hdr", !.drops = @ + 1,
                                      !.material = m.env.pbrShader,
                                      !.shader = m.env.pbrShader]
    /\ UNCHANGED <<libraryLights, unloadCalls, call>>

\* An .obj drop that leaves the model with the material LoadModel gives it.
DropObj_DefaultMaterial ==
    /\ viewer.pc = "drop"
    /\ viewer.drops < MaxDrops
    /\ viewer' = [viewer EXCEPT !.pc = "move", !.event = "obj", !.drops = @ + 1, !.shader = 0]
    /\ UNCHANGED <<libraryLights, glPrograms, libraryObjects, glUnits, frameVars>>

\* rpbr.c:459-464: UnloadModel(model); model = LoadModel(file); model.material = material;
DropObj ==
    /\ viewer.pc = "drop"
    /\ viewer.drops < MaxDrops
    /\ viewer' = [viewer EXCEPT !.pc = "move", !.event = "obj", !.drops = @ + 1,
                                !.shader = viewer.material]
    /\ UNCHANGED <<libraryLights, glPrograms, libraryObjects, glUnits, frameVars>>

\* Texture2D LoadTexture(const char *fileName) of a dropped file: a texture of
\* zeros when the image cannot be loaded.
LoadDroppedTexture(texs, nt, decodes) ==
    IF decodes THEN LoadTextureOp(texs, nt)
    ELSE [texture |-> ZeroTexture, texs |-> texs, nt |-> nt]

\* rpbr.c:485-498: an image is dropped on the rectangle of slot i.
DropImage(i, decodes) ==
    /\ viewer.pc = "drop"
    /\ viewer.drops < MaxDrops
    /\ \E t \in {LoadDroppedTexture(glTextures, nextTexture, decodes)} :
       \E u \in {IF viewer.textures[i].id # 0
                 THEN UnsetMaterialTexturePBROp(mat, t.texs, unloadCalls, i)
                 ELSE [mat |-> mat, texs |-> t.texs, log |-> unloadCalls]} :
          /\ mat' = SetMaterialTexturePBROp(u.mat, i, t.texture)
          /\ glTextures' = u.texs
          /\ nextTexture' = t.nt
          /\ unloadCalls' = u.log
          /\ glUnits' = DeleteTextures(glUnits, t.texs \ u.texs)
          /\ viewer' = [viewer EXCEPT !.pc = "move", !.event = "image", !.drops = @ + 1,
                                      !.textures[i] = t.texture,
                                      !.images = @ \cup ({t.texture.id} \ {0})]
    /\ UNCHANGED <<libraryLights, glPrograms, nextProgram, environment, frameVars>>

\* rpbr.c:541-560: with the right button down the lights follow the mouse and are
\* sent to the shader; without it nothing is sent.
MoveLights(down, q) ==
    /\ viewer.pc = "move"
    /\ \E o \in {IF down THEN OrbitLights([lights |-> lights, progs |-> glPrograms], q, 0,
                                          viewer.totalLights)
                 ELSE [lights |-> lights, progs |-> glPrograms]} :
          /\ lights' = o.lights
          /\ glPrograms' = o.progs
    /\ viewer' = [viewer EXCEPT !.pc = "click"]
    /\ UNCHANGED <<lightsCount, madeOn, passedPos, libraryObjects, glUnits, frameVars>>

\* rpbr.c:574-589 without a click on a texture slot.
NoClick ==
    /\ viewer.pc = "click"
    /\ viewer' = [viewer EXCEPT !.pc = "values"]
    /\ UNCHANGED <<libraryLights, glPrograms, libraryObjects, glUnits, frameVars>>

\* A delete click that leaves textures[i] as it is.
DeleteClick_KeepsTexture(i) ==
    /\ viewer.pc = "click"
    /\ \E u \in {UnsetMaterialTexturePBROp(mat, glTextures, unloadCalls, i)} :
          /\ mat' = u.mat
          /\ glTextures' = u.texs
          /\ unloadCalls' = u.log
          /\ glUnits' = DeleteTextures(glUnits, glTextures \ u.texs)
    /\ viewer' = [viewer EXCEPT !.pc = "values"]
    /\ UNCHANGED <<libraryLights, glPrograms, nextProgram, nextTexture, environment, frameVars>>

\* rpbr.c:583-588: UnsetMaterialTexturePBR(&matPBR, i); textures[i] = (Texture2D){ 0 };
DeleteClick(i) ==
    /\ viewer.pc = "click"
    /\ \E u \in {UnsetMaterialTexturePBROp(mat, glTextures, unloadCalls, i)} :
          /\ mat' = u.mat
          /\ glTextures' = u.texs
          /\ unloadCalls' = u.log
          /\ glUnits' = DeleteTextures(glUnits, glTextures \ u.texs)
    /\ viewer' = [viewer EXCEPT !.pc = "values", !.textures[i] = ZeroTexture]
    /\ UNCHANGED <<libraryLights, glPrograms, nextProgram, nextTexture, environment, frameVars>>

\* rpbr.c:625-627: UpdateEnvironmentValues(environment, camera, screenRes);
ViewerUpdateValues ==
    /\ viewer.pc = "values"
    /\ glPrograms' = UpdateEnvironmentValuesOp(glPrograms, environment, ViewerCamera,
                                               ViewerArgs.screen)
    /\ viewer' = [viewer EXCEPT !.pc = "model"]
    /\ UNCHANGED <<libraryLights, libraryObjects, glUnits, frameVars>>

\* rpbr.c:654-660: Begin3dMode, the optional grid, DrawModelPBR(model, matPBR, ...).
ViewerDrawModel ==
    /\ viewer.pc = "model"
    /\ glPrograms' = DrawUniforms(glPrograms, mat, "transform")
    /\ glUnits' = DrawUnbinds(DrawBinds(glUnits, mat), mat)
    /\ viewer' = [viewer EXCEPT !.pc = "gizmos",
                                !.pass = (IF viewer.drawGrid THEN <<"DrawGrid">> ELSE << >>)
                                         \o <<"DrawModelPBR">>]
    /\ UNCHANGED <<libraryLights, libraryObjects, frameVars>>

\* "DrawLight" once per light.
RECURSIVE DrawLights(_)
DrawLights(n) == IF n = 0 THEN << >> ELSE Append(DrawLights(n - 1), "DrawLight")

\* The wireframe and the light gizmos drawn after a skybox.
ViewerDrawGizmos_SkyboxFirst ==
    /\ viewer.pc = "gizmos"
    /\ viewer' = [viewer EXCEPT !.pc = "sky",
                                !.pass = @ \o <<"DrawSkybox">>
                                           \o (IF viewer.drawWire THEN <<"DrawModelWires">> ELSE << >>)
                                           \o (IF viewer.drawLights THEN DrawLights(viewer.totalLights)
                                               ELSE << >>)]
    /\ UNCHANGED <<libraryLights, glPrograms, libraryObjects, glUnits, frameVars>>

\* rpbr.c:661-668: the optional wireframe, then the optional light gizmos.
ViewerDrawGizmos ==
    /\ viewer.pc = "gizmos"
    /\ viewer' = [viewer EXCEPT !.pc = "sky",
                                !.pass = @ \o (IF viewer.drawWire THEN <<"DrawModelWires">> ELSE << >>)
                                           \o (IF viewer.drawLights THEN DrawLights(viewer.totalLights)
                                               ELSE << >>)]
    /\ UNCHANGED <<libraryLights, glPrograms, libraryObjects, glUnits, frameVars>>

\* rpbr.c:670-673: if (drawSkybox) DrawSkybox(environment, camera); End3dMode();
ViewerDrawSkybox ==
    /\ viewer.pc = "sky"
    /\ \E r \in {IF viewer.drawSkybox THEN DrawSkyboxOp(glPrograms, glUnits, environment, ViewerCamera)
                 ELSE [progs |-> glPrograms, units |-> glUnits]} :
          /\ glPrograms' = r.progs
          /\ glUnits' = r.units
    /\ viewer' = [viewer EXCEPT !.pc = "interface",
                                !.pass = @ \o (IF viewer.drawSkybox THEN <<"DrawSkybox">> ELSE << >>)
                                           \o <<"End3dMode">>]
    /\ UNCHANGED <<libraryLights, libraryObjects, frameVars>>

\* The checkboxes of DrawInterface (rpbr.c:938, 946, 950): a click toggles one.
Toggles == {"none", "drawWire", "drawLights", "drawGrid"}

\* rpbr.c:738-739 and 979-1011: DrawLightInterface of the selected light, if one
\* is selected, sets its enabled flag from the checkbox and sends the light;
\* DrawInterface reads the checkboxes.  The frame ends.
ViewerInterface(selected, enabled, toggle) ==
    /\ viewer.pc = "interface"
    /\ \E edited \in {IF selected = -1 THEN lights
                      ELSE [lights EXCEPT ![selected + 1].enabled = enabled]} :
          /\ lights' = edited
          /\ glPrograms' = IF selected = -1 THEN glPrograms
                           ELSE UpdateLightValuesOp(glPrograms, environment, edited[selected + 1])
    /\ viewer' = [viewer EXCEPT !.pc = "reset", !.event = "none", !.pass = << >>,
                                !.drawWire = IF toggle = "drawWire" THEN ~@ ELSE @,
                                !.drawLights = IF toggle = "drawLights" THEN ~@ ELSE @,
                                !.drawGrid = IF toggle = "drawGrid" THEN ~@ ELSE @]
    /\ UNCHANGED <<lightsCount, madeOn, passedPos, libraryObjects, glUnits, frameVars>>

NextViewer ==
    \/ ViewerBoot
    \/ ViewerClose
    \/ \E reset \in BOOLEAN : ViewerReset(reset)
    \/ NoDrop
    \/ \E decodes \in BOOLEAN : DropHdr(decodes)
    \/ DropObj
    \/ \E i \in Slots, decodes \in BOOLEAN : DropImage(i, decodes)
    \/ \E down \in BOOLEAN, q \in Quarters : MoveLights(down, q)
    \/ NoClick
    \/ \E i \in Slots : DeleteClick(i)
    \/ ViewerUpdateValues
    \/ ViewerDrawModel
    \/ ViewerDrawGizmos
    \/ ViewerDrawSkybox
    \/ \E selected \in {-1} \cup SelectableLights, enabled \in BOOLEAN, toggle \in Toggles :
          ViewerInterface(selected, enabled, toggle)

SpecViewer == Init /\ [][NextViewer]_vars

----------------------------------------------------------------------------
(* Vocabulary of the light claims *)

\* The location pbr.fs gives to a name (the same in every PBR program).
PbrLocation(name) ==
    LET hits == {j \in 1..Len(PbrUniforms) : PbrUniforms[j].name = name}
    IN  IF hits = {} THEN -1 ELSE (CHOOSE j \in hits : TRUE) - 1

\* What a caller reads in a Light: everything but the cached locations.
PublicFields(l) == <<l.enabled, l.type, l.position, l.target, l.color>>

CachedLocs(l) == <<l.enabledLoc, l.typeLoc, l.posLoc, l.targetLoc, l.colorLoc>>

\* The f-th cached location of a light and the f-th value sent for it.
CachedLoc(l, f) ==
    CASE f = 1 -> l.enabledLoc [] f = 2 -> l.typeLoc [] f = 3 -> l.posLoc
      [] f = 4 -> l.targetLoc [] f = 5 -> l.colorLoc

SentValue(l, f) ==
    CASE f = 1 -> BoolToInt(l.enabled) [] f = 2 -> l.type [] f = 3 -> l.position
      [] f = 4 -> l.target [] f = 5 -> <<l.color.r, l.color.g, l.color.b, l.color.a>>

\* The values UpdateLightValues sends for a light, colour in units of 1/255.
SentValues(l) ==
    <<BoolToInt(l.enabled), l.type, l.position, l.target,
      <<l.color.r, l.color.g, l.color.b, l.color.a>> >>

\* The five uniforms of slot k as a live PBR program holds them.
SlotValues(progs, id, k) ==
    [j \in 1..5 |-> Uniform(progs, id, LightUniform(k, LightFields[j]))]

\* A step that is a CreateLight call: the host holds one more Light.
CreateStep == Len(lights') = Len(lights) + 1

\* A step of UpdateLightValues that changed a uniform: the programs differ, and
\* no program was created or deleted, and no light was created.
UpdateStep ==
    /\ glPrograms' # glPrograms
    /\ DOMAIN glPrograms' = DOMAIN glPrograms
    /\ Len(lights') = Len(lights)

\* All MAX_LIGHTS lights exist and were created against the live environment.
AllOnLiveEnvironment ==
    /\ EnvLive
    /\ lightsCount = MAX_LIGHTS
    /\ Len(madeOn) >= MAX_LIGHTS
    /\ \A j \in 1..MAX_LIGHTS : madeOn[j] = environment.pbrShader

----------------------------------------------------------------------------
(* C1: CreateLight called when lightsCount already equals MAX_LIGHTS returns *)
(* the zeroed Light (enabled false, every field and cached location 0),      *)
(* uploads nothing to any program, and leaves lightsCount unchanged.         *)
C1_RejectedCreateChangesNothing ==
    [][ (CreateStep /\ lightsCount = MAX_LIGHTS) =>
            /\ lights'[Len(lights')] = ZeroLight
            /\ glPrograms' = glPrograms
            /\ lightsCount' = lightsCount ]_vars

\* A call beyond the capacity has been made and answered.
C1_Witness ==
    /\ Len(lights) > MAX_LIGHTS
    /\ lightsCount = MAX_LIGHTS
    /\ lights[Len(lights)] = ZeroLight

(* C2: after any sequence of CreateLight, UpdateLightValues, LoadEnvironment *)
(* and UnloadEnvironment calls, GetLightsCount() is between 0 and MAX_LIGHTS *)
(* and equals min(number of CreateLight calls so far, MAX_LIGHTS), so a loop *)
(* over i < GetLightsCount() stays inside a MAX_LIGHTS-element array.        *)
C2_CountIsMinOfCallsAndMax ==
    /\ GetLightsCount \in 0..MAX_LIGHTS
    /\ GetLightsCount = Min(Len(madeOn), MAX_LIGHTS)
    /\ \A i \in 0..(GetLightsCount - 1) : i + 1 \in 1..MAX_LIGHTS /\ i + 1 \in DOMAIN lights

C2_Witness ==
    /\ Len(madeOn) > MAX_LIGHTS
    /\ NumLoads >= 2
    /\ GetLightsCount = MAX_LIGHTS

(* C3 as stated: the rejected CreateLight call reports a capacity error; its *)
(* result is distinguishable, in what a caller reads of a Light, from a      *)
(* successfully created light that is simply disabled.                       *)
C3_RejectedIsDistinguishable ==
    \A k \in 1..Len(lights) : \A j \in 1..Len(lights) :
        (k > MAX_LIGHTS /\ j <= MAX_LIGHTS /\ ~lights[j].enabled)
            => PublicFields(lights[k]) # PublicFields(lights[j])

(* C3 amended: the rejected CreateLight call reports no capacity error: it   *)
(* returns a disabled Light whose type, position, target and colour are all  *)
(* zero whatever was passed, which is what a disabled directional light      *)
(* created at the origin with zero colour reads as; the two differ only in   *)
(* the cached uniform locations, all 0 in the rejected light.                *)
C3_RejectedReadsAsDisabledLight ==
    \A k \in 1..Len(lights) : k > MAX_LIGHTS =>
        /\ PublicFields(lights[k]) = <<FALSE, LIGHT_DIRECTIONAL, Zero3, Zero3, ZeroColor>>
        /\ CachedLocs(lights[k]) = <<0, 0, 0, 0, 0>>
        /\ \A j \in 1..MAX_LIGHTS :
              (/\ ~lights[j].enabled
               /\ lights[j].type = LIGHT_DIRECTIONAL
               /\ lights[j].position = Zero3 /\ lights[j].target = Zero3
               /\ lights[j].color = ZeroColor)
                 => /\ PublicFields(lights[k]) = PublicFields(lights[j])
                    /\ CachedLocs(lights[k]) # CachedLocs(lights[j])

\* A rejected light next to a created light that reads exactly the same.
C3_Witness ==
    \E k \in 1..Len(lights) : \E j \in 1..Len(lights) :
        /\ k > MAX_LIGHTS /\ j <= MAX_LIGHTS
        /\ ~lights[j].enabled
        /\ PublicFields(lights[k]) = PublicFields(lights[j])
        /\ lights[k] # lights[j]

(* C4: lightsCount never decreases and no unload or load of an environment   *)
(* changes it; every CreateLight call after the first MAX_LIGHTS returns a   *)
(* disabled light, also when it is made against a reloaded environment.      *)
C4_CountSurvivesReload ==
    [][ /\ lightsCount' >= lightsCount
        /\ (DOMAIN glPrograms' # DOMAIN glPrograms) => lightsCount' = lightsCount
        /\ (CreateStep /\ Len(lights) >= MAX_LIGHTS) => ~lights'[Len(lights')].enabled ]_vars

\* All slots were used up on an earlier environment; a call against the reloaded
\* one came back disabled.
C4_Witness ==
    /\ EnvLive
    /\ NumLoads >= 2
    /\ Len(lights) > MAX_LIGHTS
    /\ \A j \in 1..MAX_LIGHTS : madeOn[j] # environment.pbrShader
    /\ madeOn[Len(madeOn)] = environment.pbrShader
    /\ ~lights[Len(lights)].enabled

(* C5: the k-th successful CreateLight call (k = 0 .. MAX_LIGHTS-1) looks up *)
(* exactly lights[k].enabled, .type, .position, .target and .color, k as one *)
(* decimal digit, sends the light's initial values to them and only then     *)
(* increments the count; the slots of the created lights are 0, 1, 2, ... in *)
(* call order, so no two lights share one.                                   *)
C5_SlotsInCallOrder ==
    [][ /\ (CreateStep /\ lightsCount < MAX_LIGHTS) =>
              LET k == lightsCount
                  l == lights'[Len(lights')]
              IN  /\ CreateLightNames(k) =
                        [enabled |-> LightUniform(k, "enabled"),
                         type    |-> LightUniform(k, "type"),
                         pos     |-> LightUniform(k, "position"),
                         target  |-> LightUniform(k, "target"),
                         color   |-> LightUniform(k, "color")]
                  /\ CachedLocs(l) = [j \in 1..5 |-> PbrLocation(LightUniform(k, LightFields[j]))]
                  /\ l.enabled
                  /\ SlotValues(glPrograms', environment.pbrShader, k) = SentValues(l)
                  /\ \A id \in DOMAIN glPrograms : \A j \in 1..Len(glPrograms[id].u) :
                        glPrograms'[id].u[j] # glPrograms[id].u[j]
                            => id = environment.pbrShader /\ (j - 1) \in
                                  {PbrLocation(LightUniform(k, LightFields[f])) : f \in 1..5}
                  /\ lightsCount' = k + 1
        /\ \A j \in 1..Min(Len(lights'), MAX_LIGHTS) :
              lights'[j].posLoc = PbrLocation(LightUniform(j - 1, "position"))
        /\ \A i \in 1..Min(Len(lights'), MAX_LIGHTS) : \A j \in 1..Min(Len(lights'), MAX_LIGHTS) :
              i # j => CachedLocs(lights'[i]) # CachedLocs(lights'[j]) ]_vars

\* The last slot has just been handed out and holds its light's values.
C5_Witness ==
    /\ EnvLive
    /\ Len(lights) = MAX_LIGHTS
    /\ lightsCount = MAX_LIGHTS
    /\ madeOn[MAX_LIGHTS] = environment.pbrShader
    /\ lights[MAX_LIGHTS].position # Zero3
    /\ SlotValues(glPrograms, environment.pbrShader, MAX_LIGHTS - 1) = SentValues(lights[MAX_LIGHTS])

(* C6: when MAX_LIGHTS lights were created against one environment, also     *)
(* after any UpdateLightValues calls for them, the PBR program's uniform      *)
(* lights[i].position is the position passed to the i-th CreateLight call,    *)
(* for every i in 0 .. MAX_LIGHTS-1.                                          *)
C6_PositionUniformIsPassedPosition ==
    AllOnLiveEnvironment =>
        \A i \in 0..(MAX_LIGHTS - 1) :
            Uniform(glPrograms, environment.pbrShader, LightUniform(i, "position"))
                = passedPos[i + 1]

\* Four lights on one environment, light 2 re-sent after an edit, its position
\* uniform not the default.
C6_Witness ==
    /\ AllOnLiveEnvironment
    /\ passedPos[3] # Zero3
    /\ ~lights[3].enabled
    /\ Uniform(glPrograms, environment.pbrShader, LightUniform(2, "enabled")) = 0
    /\ Uniform(glPrograms, environment.pbrShader, LightUniform(2, "position")) = passedPos[3]

(* C7: UpdateLightValues writes only the enabled, type, position, target and *)
(* color uniforms whose locations the light caches, in the environment's PBR *)
(* program, the colour as r/255, g/255, b/255, a/255; a second call with the *)
(* same arguments changes nothing more; lightsCount and the host's other     *)
(* lights are as before.                                                     *)
C7_UpdateLightValuesIdempotent ==
    [][ UpdateStep =>
          /\ lightsCount' = lightsCount
          /\ \E i \in 1..Min(Len(lights'), GetLightsCount) :
                LET l == lights'[i]
                    s == environment.pbrShader
                IN  /\ s \in DOMAIN glPrograms
                    /\ \A id \in DOMAIN glPrograms : id # s => glPrograms'[id] = glPrograms[id]
                    /\ \A f \in 1..5 : glPrograms'[s].u[CachedLoc(l, f) + 1] = SentValue(l, f)
                    /\ \A j \in 1..Len(glPrograms[s].u) :
                          glPrograms'[s].u[j] # glPrograms[s].u[j]
                              => \E f \in 1..5 : CachedLoc(l, f) + 1 = j
                    /\ UpdateLightValuesOp(glPrograms', environment, l) = glPrograms'
                    /\ [l EXCEPT !.enabled = lights[i].enabled] = lights[i]
                    /\ \A j \in 1..Len(lights) : j # i => lights'[j] = lights[j] ]_vars

\* A light created against an earlier environment has been sent to the program
\* of the reloaded one, which now holds its values.
C7_Witness ==
    /\ EnvLive
    /\ \E i \in 1..Min(Len(lights), MAX_LIGHTS) :
          /\ madeOn[i] # environment.pbrShader
          /\ lights[i].position # Zero3
          /\ SlotValues(glPrograms, environment.pbrShader, i - 1) = SentValues(lights[i])

----------------------------------------------------------------------------
(* Vocabulary of the material claims *)

\* A step of the material host that made the call op (the steps that load or
\* unload an environment create or delete programs).
MaterialCall(op) ==
    /\ call'.op = op
    /\ DOMAIN glPrograms' = DOMAIN glPrograms

\* The material m has no texture on any property, the given albedo colour, the
\* given red channels for metalness and roughness, the fixed colours of the other
\* properties, and the environment env.
SetupReturns(m, env, albedo, metalRed, roughRed) ==
    /\ \A i \in 1..7 : /\ ~m[Properties[i]].useBitmap
                       /\ m[Properties[i]].bitmap = ZeroTexture
    /\ m.albedo.color = albedo
    /\ m.metalness.color = [r |-> metalRed, g |-> 0, b |-> 0, a |-> 0]
    /\ m.roughness.color = [r |-> roughRed, g |-> 0, b |-> 0, a |-> 0]
    /\ m.normals.color = [r |-> 128, g |-> 128, b |-> 255, a |-> 255]
    /\ m.ao.color = [r |-> 255, g |-> 255, b |-> 255, a |-> 255]
    /\ m.emission.color = ZeroColor
    /\ m.height.color = ZeroColor
    /\ m.env = env

\* The properties other than p are the same in the materials m and n, and so is
\* the environment.
SameButProperty(m, n, p) ==
    /\ \A i \in 1..7 : Properties[i] # p => n[Properties[i]] = m[Properties[i]]
    /\ n.env = m.env

\* No property of m holds the texture named id.
NoOwner(m, id) == \A i \in 1..7 : m[Properties[i]].bitmap.id # id

----------------------------------------------------------------------------
(* C8 as stated: SetupMaterialPBR returns a material whose seven properties  *)
(* have useBitmap false and a zero bitmap, whose albedo colour is the given  *)
(* colour, whose metalness and roughness colours carry the given constants   *)
(* in their red channel (normals (128,128,255), ao 255, emission and height  *)
(* 0), and whose env is the environment passed.                              *)
C8_SetupCarriesConstants ==
    [][ MaterialCall("Setup") =>
          SetupReturns(mat', environment, call'.in.albedo,
                       call'.in.metalness, call'.in.roughness) ]_vars

(* C8 amended: as C8, but the red channel of the metalness and roughness     *)
(* colours carries the given int constant reduced modulo 256 (the constant   *)
(* itself when it is in 0..255).                                             *)
C8_SetupCarriesConstantsModulo256 ==
    [][ MaterialCall("Setup") =>
          SetupReturns(mat', environment, call'.in.albedo,
                       call'.in.metalness % 256, call'.in.roughness % 256) ]_vars

\* A material set up on a reloaded environment with a constant above 255.
C8_Witness ==
    /\ call.op = "Setup"
    /\ call.in.roughness > 255
    /\ mat.roughness.color.r = call.in.roughness - 256
    /\ mat.albedo.color = call.in.albedo
    /\ NumLoads >= 2
    /\ EnvLive
    /\ mat.env = environment

(* C9: SetMaterialTexturePBR(mat, k, tex) sets property k's bitmap to tex and *)
(* its useBitmap to true and changes nothing else: the other six properties,  *)
(* every colour constant and mat.env are unchanged; the texture property k    *)
(* held before is not unloaded: it stays live, and no property of the         *)
(* material holds it any more.                                                *)
C9_SetChangesOnlyPropertyK ==
    [][ MaterialCall("Set") =>
          LET p   == PropertyOf(call'.type)
              old == mat[p].bitmap
          IN  /\ mat'[p].bitmap = call'.texture
              /\ mat'[p].useBitmap
              /\ mat'[p].color = mat[p].color
              /\ SameButProperty(mat, mat', p)
              /\ unloadCalls' = unloadCalls
              /\ glTextures \subseteq glTextures'
              /\ old.id # 0 => /\ old.id \in glTextures'
                               /\ NoOwner(mat', old.id) ]_vars

\* A texture has just replaced another one, which is still live and which no
\* property holds.
C9_Witness ==
    /\ call.op = "Set"
    /\ call.previous.useBitmap
    /\ call.previous.bitmap.id \in glTextures
    /\ mat[PropertyOf(call.type)].bitmap = call.texture
    /\ NoOwner(mat, call.previous.bitmap.id)
    /\ BagToSet(unloadCalls) = {}

(* C10: UnsetMaterialTexturePBR(mat, k) on a property with useBitmap true    *)
(* sets useBitmap to false, unloads the property's texture exactly once,     *)
(* zeroes the bitmap and leaves the colour and the other six properties      *)
(* unchanged; on a property with useBitmap false it changes and unloads      *)
(* nothing; a second call right after the first changes and unloads nothing, *)
(* and no texture name is ever unloaded twice.                               *)
C10_UnsetUnloadsOnce ==
    [][ MaterialCall("Unset") =>
          LET k   == call'.type
              p   == PropertyOf(k)
              old == mat[p].bitmap
          IN  /\ mat[p].useBitmap =>
                    /\ ~mat'[p].useBitmap
                    /\ mat'[p].bitmap = ZeroTexture
                    /\ mat'[p].color = mat[p].color
                    /\ SameButProperty(mat, mat', p)
                    /\ old.id \in glTextures
                    /\ glTextures' = glTextures \ {old.id}
                    /\ CopiesIn(old.id, unloadCalls') = CopiesIn(old.id, unloadCalls) + 1
                    /\ \A id \in 1..nextTexture :
                          id # old.id => CopiesIn(id, unloadCalls') = CopiesIn(id, unloadCalls)
              /\ ~mat[p].useBitmap =>
                    /\ mat' = mat
                    /\ glTextures' = glTextures
                    /\ unloadCalls' = unloadCalls
              /\ UnsetMaterialTexturePBROp(mat', glTextures', unloadCalls', k)
                    = [mat |-> mat', texs |-> glTextures', log |-> unloadCalls']
              /\ \A id \in 1..nextTexture : CopiesIn(id, unloadCalls') <= 1 ]_vars

\* A property has lost its texture, unloaded once, while another property keeps
\* its own.
C10_Witness ==
    /\ call.op = "Unset"
    /\ mat[PropertyOf(call.type)] =
          [bitmap |-> ZeroTexture, useBitmap |-> FALSE,
           color |-> mat[PropertyOf(call.type)].color]
    /\ \E id \in 1..nextTexture : CopiesIn(id, unloadCalls) = 1 /\ id \notin glTextures
    /\ \E i \in 1..7 : mat[Properties[i]].useBitmap
                       /\ mat[Properties[i]].bitmap.id \in glTextures

----------------------------------------------------------------------------
(* Vocabulary of the draw claims *)

\* The uniform names of a property, as DrawModelPBR and SetupMaterialPBR spell them.
UseSamplerName ==
    [albedo |-> <<"albedo.useSampler">>, normals |-> <<"normals.useSampler">>,
     metalness |-> <<"metalness.useSampler">>, roughness |-> <<"roughness.useSampler">>,
     ao |-> <<"ao.useSampler">>, emission |-> <<"emission.useSampler">>,
     height |-> <<"height.useSampler">>]

SamplerName ==
    [albedo |-> <<"albedo.sampler">>, normals |-> <<"normals.sampler">>,
     metalness |-> <<"metalness.sampler">>, roughness |-> <<"roughness.sampler">>,
     ao |-> <<"ao.sampler">>, emission |-> <<"emission.sampler">>,
     height |-> <<"height.sampler">>]

\* The unit the spec gives to the i-th property: albedo 3, ..., height 9.
UnitOf(i) == i + 2

\* The last material call was DrawModelPBR(model, mat, ...).
Drawn == call.op = "Draw"

----------------------------------------------------------------------------
(* C11: for every DrawModelPBR call and each of the seven properties p, the    *)
(* useSampler flag uploaded for p equals p.useBitmap; when DrawModelEx is      *)
(* called, a property with useBitmap = true has its own bitmap id bound on its *)
(* unit (albedo 3, normals 4, metalness 5, roughness 6, ao 7, emission 8,      *)
(* height 9), and units 0, 1 and 2 hold the irradiance, prefilter and BRDF     *)
(* textures of mat.env, whatever the material configuration.                   *)
C11_DrawBindsOwnTextures ==
    Drawn =>
        /\ \A i \in 1..7 :
              LET p == Properties[i]
              IN  /\ Uniform(glPrograms, mat.env.pbrShader, UseSamplerName[p])
                        = BoolToInt(mat[p].useBitmap)
                  /\ mat[p].useBitmap => call.atDraw.tex2d[UnitOf(i)] = mat[p].bitmap.id
        /\ call.atDraw.cube[0] = mat.env.irradianceId
        /\ call.atDraw.cube[1] = mat.env.prefilterId
        /\ call.atDraw.tex2d[2] = mat.env.brdfId

\* A draw with textures on the first and the last property and none on emission,
\* followed by DrawSkybox, which leaves the cubemap on unit 0.
C11_Witness ==
    /\ Drawn
    /\ mat.albedo.useBitmap /\ mat.height.useBitmap /\ ~mat.emission.useBitmap
    /\ mat.albedo.bitmap.id # mat.height.bitmap.id
    /\ call.atDraw.tex2d[3] = mat.albedo.bitmap.id
    /\ call.atDraw.tex2d[9] = mat.height.bitmap.id
    /\ call.atDraw.cube[0] = mat.env.irradianceId
    /\ glUnits.cube[0] = mat.env.cubemapId

----------------------------------------------------------------------------
(* C12: over any sequence of SetMaterialTexturePBR, UnsetMaterialTexturePBR    *)
(* and DrawModelPBR calls, after a DrawModelPBR call has returned, the texture *)
(* id bound on the unit of every property whose useBitmap is false is 0.       *)
C12_UnusedUnitsUnbound ==
    Drawn =>
        \A i \in 1..7 :
            ~mat[Properties[i]].useBitmap => glUnits.tex2d[UnitOf(i)] = 0

----------------------------------------------------------------------------
(* C13: the unit number written to each of the ten sampler uniforms            *)
(* (irradianceMap, prefilterMap, brdfLUT by LoadEnvironment; albedo.sampler to *)
(* height.sampler by SetupMaterialPBR) is the unit on which DrawModelPBR has   *)
(* bound the corresponding texture when DrawModelEx is called.                 *)
C13_SamplerUnitsAreBindUnits ==
    Drawn =>
        LET sh == mat.env.pbrShader
        IN  /\ call.atDraw.cube[Uniform(glPrograms, sh, <<"irradianceMap">>)] = mat.env.irradianceId
            /\ call.atDraw.cube[Uniform(glPrograms, sh, <<"prefilterMap">>)] = mat.env.prefilterId
            /\ call.atDraw.tex2d[Uniform(glPrograms, sh, <<"brdfLUT">>)] = mat.env.brdfId
            /\ \A i \in 1..7 :
                  LET p == Properties[i]
                  IN  mat[p].useBitmap =>
                          call.atDraw.tex2d[Uniform(glPrograms, sh, SamplerName[p])]
                              = mat[p].bitmap.id

\* A draw with the emission and height textures attached: the two samplers that a
\* slip of one unit would confuse.
C13_Witness ==
    /\ Drawn
    /\ mat.emission.useBitmap /\ mat.height.useBitmap
    /\ Uniform(glPrograms, mat.env.pbrShader, <<"emission.sampler">>) = 8
    /\ Uniform(glPrograms, mat.env.pbrShader, <<"height.sampler">>) = 9
    /\ call.atDraw.tex2d[8] = mat.emission.bitmap.id
    /\ call.atDraw.tex2d[9] = mat.height.bitmap.id
    /\ mat.emission.bitmap.id # mat.height.bitmap.id

----------------------------------------------------------------------------
(* Vocabulary of the LoadEnvironment claims *)

\* The step is a LoadEnvironment call: six programs were created.
LoadStep == nextProgram' # nextProgram

\* The log of the LoadEnvironment call the step is.
LoadLog ==
    LoadEnvironmentContext(nextProgram, nextTexture, glUnits, glFramebuffer, glViewport,
                           texWrites, loadArgs').log

IsRender(e) == e.kind # "end"

\* The RenderCube and RenderQuad calls of a log, in the order they were made.
Renders(log) == SelectSeq(log, IsRender)

\* The entries a pass made.
OfPass(log, pass) == SelectSeq(log, LAMBDA e : e.pass = pass)

PassNumber(pass) ==
    CASE pass = "cubemap" -> 1 [] pass = "irradiance" -> 2
      [] pass = "prefilter" -> 3 [] pass = "brdf" -> 4

\* The texture a pass renders into.
TargetOf(env, pass) ==
    CASE pass = "cubemap" -> env.cubemapId [] pass = "irradiance" -> env.irradianceId
      [] pass = "prefilter" -> env.prefilterId [] pass = "brdf" -> env.brdfId

----------------------------------------------------------------------------
(* C14: within one LoadEnvironment call the passes run in the order cubemap,   *)
(* irradiance, prefilter, BRDF LUT; all six faces of the cubemap have been     *)
(* rendered before the first irradiance face and before the first prefilter    *)
(* face is rendered, both passes sample the cubemap on unit 0, and the BRDF    *)
(* quad is rendered exactly once.                                              *)
PassesInOrder(R, env) ==
    /\ \A i, j \in 1..Len(R) : i < j => PassNumber(R[i].pass) <= PassNumber(R[j].pass)
    /\ \A j \in 1..Len(R) :
          R[j].pass \in {"irradiance", "prefilter"} =>
              /\ \A f \in 0..5 : \E i \in 1..(j - 1) :
                    /\ R[i].pass = "cubemap"
                    /\ R[i].color = Attachment(env.cubemapId, f, 0)
              /\ R[j].unit0.cube = env.cubemapId
              /\ R[j].uniforms.environmentMap = 0
    /\ \E j \in 1..Len(R) : R[j].pass = "irradiance"
    /\ \E j \in 1..Len(R) : R[j].pass = "prefilter"
    /\ Cardinality({j \in 1..Len(R) : R[j].kind = "quad"}) = 1
    /\ \A j \in 1..Len(R) : R[j].kind = "quad" <=> R[j].pass = "brdf"

C14_PassesInOrder ==
    [][LoadStep => \A R \in {Renders(LoadLog)} : PassesInOrder(R, environment')]_vars

\* A second LoadEnvironment call, made after the first environment was drawn with
\* and unloaded, has returned.
C14_Witness ==
    /\ EnvLive
    /\ NumLoads = 2
    /\ loadArgs = ViewerArgs
    /\ mat.env.pbrShader \notin DOMAIN glPrograms
    /\ call.op = "Draw"

----------------------------------------------------------------------------
(* C15: once LoadEnvironment has returned, no call to SetupMaterialPBR,        *)
(* SetMaterialTexturePBR, UnsetMaterialTexturePBR, CreateLight,                *)
(* UpdateLightValues, UpdateEnvironmentValues, DrawModelPBR, DrawSkybox or     *)
(* UnloadMaterialPBR renders into, specifies again or deletes the cubemap,     *)
(* irradiance, prefilter or BRDF texture of the environment: a step that is    *)
(* not UnloadEnvironment leaves the four textures live and unwritten.          *)

\* The step is an UnloadEnvironment call: the PBR program was deleted.
UnloadStep ==
    /\ environment.pbrShader \in DOMAIN glPrograms
    /\ environment.pbrShader \notin DOMAIN glPrograms'

C15_EnvironmentTexturesImmutable ==
    [][\A id \in EnvironmentTextures(environment) :
          id \in glTextures =>
              \/ UnloadStep
              \/ /\ id \in glTextures'
                 /\ CopiesIn(id, texWrites') = CopiesIn(id, texWrites)]_vars

\* The environment is intact after a light was created on it, the material was
\* drawn with two textures, the skybox was drawn and the material was unloaded.
C15_Witness ==
    /\ EnvLive
    /\ EnvironmentTextures(environment) \subseteq glTextures
    /\ lightsCount = 1
    /\ call.op = "Unload"
    /\ BagCardinality(unloadCalls) = 2
    /\ glUnits.cube[0] = environment.cubemapId
    /\ glPrograms[environment.pbrShader].u[environment.pbrViewLoc + 1] = ViewerCamera
    /\ CopiesIn(environment.brdfId, texWrites) = 2

----------------------------------------------------------------------------
(* C16: LoadEnvironment does not fail when the HDR file cannot be decoded: the *)
(* result of LoadTexture is not looked at, and the call returns the            *)
(* Environment it returns for a file that decodes, with live programs and      *)
(* textures, after making every render of the four passes; the cubemap pass    *)
(* sampled texture 0 in place of the panorama.                                 *)

\* The statement as the contract has it: no Environment comes out of a call that
\* was given a file that cannot be decoded.
C16_DecodeFailureFails == ~loadArgs.decodes => ~EnvLive

C16_DecodeFailureIsSilent ==
    [][LoadStep /\ ~loadArgs'.decodes =>
          /\ EnvLive'
          /\ EnvironmentTextures(environment') \subseteq glTextures'
          /\ environment' = LoadEnvironmentOp(glPrograms, glTextures, nextProgram, nextTexture,
                                              [loadArgs' EXCEPT !.decodes = TRUE]).env
          /\ \A R \in {Renders(LoadLog)} :
                /\ Len(R) = 6 + 6 + MAX_MIPMAP_LEVELS * 6 + 1
                /\ \A j \in 1..Len(R) :
                      R[j].pass = "cubemap" =>
                          /\ R[j].unit0.tex2d = 0
                          /\ R[j].uniforms.equirectangularMap = 0]_vars

\* An environment made from a file that could not be decoded is live.
C16_Witness ==
    /\ EnvLive
    /\ ~loadArgs.decodes
    /\ loadArgs.prefilterSize = 100
    /\ EnvironmentTextures(environment) \subseteq glTextures

----------------------------------------------------------------------------
(* C17: when LoadEnvironment returns, the viewport is (0, 0, screen width,     *)
(* screen height) whatever the four sizes were, and the skybox shader of the   *)
(* returned Environment holds the perspective projection of 60 degrees with    *)
(* the window's aspect ratio, not the capture projection of 90 degrees and     *)
(* aspect 1.                                                                   *)

\* The value of the projection uniform of the skybox shader.
SkyProjection(progs, env) ==
    progs[env.skyShader].u[GetShaderLocation(progs, env.skyShader, <<"projection">>) + 1]

C17_ViewportAndProjectionRestored ==
    [][LoadStep =>
          /\ glViewport' = <<0, 0, loadArgs'.screen[1], loadArgs'.screen[2]>>
          /\ \A P \in {SkyProjection(glPrograms', environment')} :
                /\ P.fovy = 60
                /\ P.aspect[1] * loadArgs'.screen[2] = P.aspect[2] * loadArgs'.screen[1]
                /\ P # CaptureProjection]_vars

\* A second environment was loaded with sizes other than the viewer's.
C17_Witness ==
    /\ EnvLive
    /\ NumLoads = 2
    /\ loadArgs.cubemapSize = 64 /\ loadArgs.brdfSize = 16
    /\ glViewport = <<0, 0, 1440, 810>>

----------------------------------------------------------------------------
(* C18: each of the four passes of LoadEnvironment ends with framebuffer 0     *)
(* bound, before anything of the next pass is rendered, and framebuffer 0 is   *)
(* bound when the call returns; every render of a pass is made with the        *)
(* capture framebuffer bound and with a face or level of that pass's own       *)
(* target texture as its colour attachment.                                    *)
PassesUnbind(L, env) ==
    /\ \A pass \in {"cubemap", "irradiance", "prefilter", "brdf"} :
          Cardinality({i \in 1..Len(L) : L[i].kind = "end" /\ L[i].pass = pass}) = 1
    /\ \A i \in 1..Len(L) :
          L[i].kind = "end" =>
              /\ L[i].framebuffer = 0
              /\ \A j \in 1..Len(L) :
                    PassNumber(L[j].pass) > PassNumber(L[i].pass) <=> i < j
    /\ \A i \in 1..Len(L) :
          IsRender(L[i]) =>
              /\ L[i].framebuffer # 0
              /\ L[i].color.tex = TargetOf(env, L[i].pass)
              /\ L[i].color.face \in (IF L[i].kind = "quad" THEN {-1} ELSE 0..5)
              /\ L[i].color.level \in 0..(MAX_MIPMAP_LEVELS - 1)

C18_PassesUnbindFramebuffer ==
    [][LoadStep =>
          /\ glFramebuffer'.bound = 0
          /\ \A L \in {LoadLog} : PassesUnbind(L, environment')]_vars

\* LoadEnvironment has returned: framebuffer 0 is bound, and the capture
\* framebuffer was left with the BRDF texture attached.
C18_Witness ==
    /\ EnvLive
    /\ glFramebuffer.bound = 0
    /\ glFramebuffer.color = Attachment(environment.brdfId, -1, 0)
    /\ glFramebuffer.depth = <<16, 16>>
    /\ loadArgs.irradianceSize = 8

----------------------------------------------------------------------------
(* C19: the prefilter pass makes exactly MAX_MIPMAP_LEVELS * 6 = 30 cube draws, *)
(* six faces for each of the levels 0..4 in increasing order of level; for     *)
(* level mip the roughness uniform is mip/(MAX_MIPMAP_LEVELS - 1), the depth   *)
(* renderbuffer and the viewport are w x w for w the integer part of           *)
(* prefilterSize * 0.5^mip, and face i is attached at level mip of the         *)
(* prefilter cubemap.                                                          *)
PrefilterDraws(P, env, size) ==
    /\ MAX_MIPMAP_LEVELS = 5
    /\ Len(P) = 30
    /\ \A i, j \in 1..Len(P) : i < j => P[i].color.level <= P[j].color.level
    /\ \A k \in 1..Len(P) :
          \A mip \in {(k - 1) \div 6} : \A w \in {P[k].viewport[3]} :
              /\ P[k].kind = "cube"
              /\ P[k].color = Attachment(env.prefilterId, (k - 1) % 6, mip)
              /\ P[k].uniforms.view = (k - 1) % 6
              /\ P[k].uniforms.roughness[2] > 0
              /\ P[k].uniforms.roughness[1] * (MAX_MIPMAP_LEVELS - 1)
                     = mip * P[k].uniforms.roughness[2]
              /\ P[k].viewport = <<0, 0, w, w>>
              /\ P[k].depth = <<w, w>>
              /\ w * (2 ^ mip) <= size
              /\ size < (w + 1) * (2 ^ mip)

C19_PrefilterMipChain ==
    [][LoadStep =>
          \A P \in {OfPass(Renders(LoadLog), "prefilter")} :
              PrefilterDraws(P, environment', loadArgs'.prefilterSize)]_vars

\* An environment was loaded with the prefilter size of pbr_demo.c: the seven
\* specifications of the prefilter cubemap and its thirty draws were made.
C19_Witness ==
    /\ EnvLive
    /\ loadArgs.prefilterSize = 128
    /\ CopiesIn(environment.prefilterId, texWrites) = 7 + 30
    /\ glUnits.cube[0] = environment.cubemapId

----------------------------------------------------------------------------
(* C20: for every prefilterSize >= 1 given to LoadEnvironment, each of the     *)
(* five levels of the prefilter pass is rendered with a depth renderbuffer and *)
(* a viewport of at least 1 x 1 pixel.                                         *)
C20_MipsAtLeastOnePixel ==
    [][LoadStep /\ loadArgs'.prefilterSize >= 1 =>
          \A P \in {OfPass(Renders(LoadLog), "prefilter")} :
              \A k \in 1..Len(P) :
                  /\ P[k].viewport[3] >= 1 /\ P[k].viewport[4] >= 1
                  /\ P[k].depth[1] >= 1 /\ P[k].depth[2] >= 1]_vars

----------------------------------------------------------------------------
----------------------------------------------------------------------------
(* C22: when DrawModelPBR returns, every unit of 0..8 that it bound before the *)
(* mesh draw (0, 1 and 2 always; 3..8 for albedo, normals, metalness,          *)
(* roughness, ao and emission when the property's useBitmap is true) holds     *)
(* texture 0, and every unit of 3..8 that it did not bind holds what it held   *)
(* at the mesh draw.                                                           *)
C22_UnbindsMirrorBinds ==
    Drawn =>
        /\ call.atReturn.cube[0] = 0
        /\ call.atReturn.cube[1] = 0
        /\ call.atReturn.tex2d[2] = 0
        /\ \A i \in 1..6 :
              IF mat[Properties[i]].useBitmap
              THEN call.atReturn.tex2d[UnitOf(i)] = 0
              ELSE call.atReturn.tex2d[UnitOf(i)] = call.atDraw.tex2d[UnitOf(i)]

----------------------------------------------------------------------------
(* C30: DrawModelPBR uploads the colour of albedo, normals, metalness, ao,     *)
(* emission and height as each channel divided by 255, and the colour of       *)
(* roughness as (255 - c)/255 for each channel c; a roughness constant r of    *)
(* 0..255 given to SetupMaterialPBR is the red channel of roughness.color, so  *)
(* the shader receives (255 - r)/255, which is 0 for r = 255.                  *)

\* The colour uniform of a property, in units of 1/255.
ColorUniform(p) ==
    Uniform(glPrograms, mat.env.pbrShader,
            CASE p = "albedo" -> <<"albedo.color">> [] p = "normals" -> <<"normals.color">>
              [] p = "metalness" -> <<"metalness.color">> [] p = "roughness" -> <<"roughness.color">>
              [] p = "ao" -> <<"ao.color">> [] p = "emission" -> <<"emission.color">>
              [] p = "height" -> <<"height.color">>)

C30_RoughnessIsComplemented ==
    /\ call.op = "Setup" /\ call.in.roughness \in 0..255 =>
           mat.roughness.color.r = call.in.roughness
    /\ Drawn =>
           \A i \in 1..7 :
               \A c \in {mat[Properties[i]].color} : \A u \in {ColorUniform(Properties[i])} :
                   IF Properties[i] = "roughness"
                   THEN /\ u[1] + c.r = 255 /\ u[2] + c.g = 255 /\ u[3] + c.b = 255
                        /\ c.r = 255 => u[1] = 0
                   ELSE u = <<c.r, c.g, c.b>>

\* A material set up with roughness 255 was drawn: the shader holds 0 in the
\* red channel of roughness.color and 1 (255/255) in the other two.
C30_Witness ==
    /\ Drawn
    /\ mat.roughness.color.r = 255
    /\ mat.metalness.color.r = 0
    /\ ColorUniform("roughness") = <<0, 255, 255>>
    /\ ColorUniform("albedo") = <<255, 254, 0>>

----------------------------------------------------------------------------
(* C26: UnloadMaterialPBR and UnloadEnvironment commute.  UnloadMaterialPBR    *)
(* releases the bitmaps of the properties with useBitmap = true and nothing    *)
(* else, UnloadEnvironment releases the two shaders and the four textures of   *)
(* the environment and nothing else, no object is released by both, and the    *)
(* live shaders and textures after the two calls are the same in either order. *)

\* The step is an UnloadMaterialPBR call.
UnloadMaterialStep == call.op # "Unload" /\ call'.op = "Unload"

\* The bitmaps of a material's properties that have useBitmap = true.
OwnBitmaps(m) == { m[Properties[i]].bitmap.id : i \in {j \in 1..7 : m[Properties[j]].useBitmap} }

C26_UnloadsCommute ==
    [][/\ UnloadStep /\ MaterialSetUp /\ MaterialInUse =>
            /\ glTextures \ glTextures' = EnvironmentTextures(environment)
            /\ DOMAIN glPrograms \ DOMAIN glPrograms'
                   = {environment.pbrShader, environment.skyShader}
            /\ EnvironmentTextures(environment) \cap OwnBitmaps(mat) = {}
            /\ \A M \in {UnloadMaterialPBROp(mat, glTextures, unloadCalls)} :
                  /\ UnloadMaterialPBROp(mat, glTextures', unloadCalls).texs
                         = UnloadEnvironmentOp(glPrograms, M.texs, environment).texs
                  /\ glPrograms' = UnloadEnvironmentOp(glPrograms, M.texs, environment).progs
       /\ UnloadMaterialStep /\ EnvLive =>
            /\ glTextures \ glTextures' = OwnBitmaps(mat) \ {0}
            /\ glPrograms' = glPrograms
            /\ \A E \in {UnloadEnvironmentOp(glPrograms, glTextures, environment)} :
                  /\ UnloadEnvironmentOp(glPrograms', glTextures', environment).texs
                         = UnloadMaterialPBROp(mat, E.texs, unloadCalls).texs
                  /\ UnloadEnvironmentOp(glPrograms', glTextures', environment).progs = E.progs]_vars

\* Both calls were made on a material with two bitmaps: each bitmap was unloaded
\* once and the environment's shaders and textures are gone.
C26_Witness ==
    /\ call.op = "Unload"
    /\ ~EnvLive
    /\ NumLoads = 1
    /\ mat.albedo.useBitmap /\ mat.height.useBitmap
    /\ BagToSet(unloadCalls) = OwnBitmaps(mat)
    /\ glTextures \cap (OwnBitmaps(mat) \cup EnvironmentTextures(environment)) = {}

----------------------------------------------------------------------------
(* C27: LoadEnvironment followed by UnloadEnvironment is resource-neutral:     *)
(* once UnloadEnvironment has returned, no shader and no texture that          *)
(* LoadEnvironment created is live, however many times the environment was     *)
(* reloaded.  (The host of SpecLoad loads no texture of its own.)              *)
C27_LoadUnloadIsNeutral ==
    ~EnvLive => glTextures = {} /\ DOMAIN glPrograms = {}

----------------------------------------------------------------------------
(* The viewer *)

\* main is about to call UpdateEnvironmentValues, DrawModelPBR or DrawSkybox.
ViewerAtCall == viewer.pc \in {"values", "model"} \/ (viewer.pc = "sky" /\ viewer.drawSkybox)

(* C23: in the viewer, at every DrawModelPBR, DrawSkybox and                   *)
(* UpdateEnvironmentValues call, environment, matPBR.env and the shader of     *)
(* model.material are the same shader and texture ids and all of them are      *)
(* live, whatever .hdr, .obj and image files were dropped; in the frame of an  *)
(* .hdr drop the old environment is unloaded and the new one loaded and set    *)
(* up in the material before the calls of that frame.                          *)
C23_ViewerHandlesAgree ==
    ViewerAtCall =>
        /\ mat.env = environment
        /\ viewer.shader = environment.pbrShader
        /\ {environment.pbrShader, environment.skyShader} \subseteq DOMAIN glPrograms
        /\ EnvironmentTextures(environment) \subseteq glTextures
        /\ viewer.event = "hdr" =>
               /\ environment.pbrShader = nextProgram - 5
               /\ DOMAIN glPrograms = {environment.pbrShader, environment.skyShader}

\* A draw in the frame of an .hdr drop, after an .obj and an image were dropped.
C23_Witness ==
    /\ viewer.pc = "model"
    /\ viewer.event = "hdr"
    /\ viewer.drops = MaxDrops
    /\ NumLoads = 2

(* C24: whenever DrawModelPBR runs in the viewer, the PBR shader in use holds   *)
(* the current enabled flag, type, position, target and colour of every        *)
(* created light, also in the frames after an .hdr drop replaced the           *)
(* environment.                                                                *)
C24_ShaderHoldsLights ==
    viewer.pc = "model" =>
        \A i \in 0..(viewer.totalLights - 1) :
            SlotValues(glPrograms, environment.pbrShader, i) = SentValues(lights[i + 1])

\* The draw calls of the 3D pass that are not the skybox.
SceneDraws == {"DrawGrid", "DrawModelPBR", "DrawModelWires", "DrawLight"}

(* C25: in every frame of the viewer DrawSkybox is the last draw of the 3D      *)
(* pass: it comes after DrawModelPBR, the optional wireframe and the light     *)
(* gizmos, right before End3dMode, and it is issued exactly when drawSkybox    *)
(* is set.                                                                     *)
C25_SkyboxIsLastDraw ==
    viewer.pc = "interface" =>
        \A n \in {Len(viewer.pass)} :
            /\ viewer.pass[n] = "End3dMode"
            /\ viewer.drawSkybox <=> (\E k \in 1..n : viewer.pass[k] = "DrawSkybox")
            /\ \A k \in 1..n :
                  viewer.pass[k] = "DrawSkybox" =>
                      /\ k = n - 1
                      /\ \A j \in 1..(k - 1) : viewer.pass[j] \in SceneDraws
                      /\ \E j \in 1..(k - 1) : viewer.pass[j] = "DrawModelPBR"
            /\ \A k \in 1..(n - 1) : viewer.pass[k] \in SceneDraws \cup {"DrawSkybox"}

\* A pass with the wireframe, the light gizmos and the skybox has ended.
C25_Witness ==
    /\ viewer.pc = "interface"
    /\ viewer.drawWire
    /\ viewer.drawLights
    /\ viewer.pass[Len(viewer.pass) - 1] = "DrawSkybox"
    /\ \E k \in 1..Len(viewer.pass) : viewer.pass[k] = "DrawLight"

(* C28: in the viewer, over any sequence of image drops, delete clicks and     *)
(* .hdr reloads followed by shutdown, every material texture LoadTexture       *)
(* returned is unloaded exactly once: no id is passed to UnloadTexture twice,  *)
(* and none is live after the UnloadMaterialPBR of the shutdown.               *)
C28_TexturesUnloadedOnce ==
    \A id \in viewer.images :
        /\ CopiesIn(id, unloadCalls) <= 1
        /\ viewer.pc = "closed" => id \notin glTextures /\ CopiesIn(id, unloadCalls) = 1

\* The viewer has shut down after an image drop and an .hdr reload.
C28_Witness ==
    /\ viewer.pc = "closed"
    /\ NumLoads = 2
    /\ Cardinality(viewer.images) = Len(StartupTextures) + 1

(* C29: in the viewer, at the end of every update phase and for each of the    *)
(* seven slots i, textures[i].id is non-zero exactly when property i of        *)
(* matPBR has useBitmap set, and then textures[i] is the bitmap of that        *)
(* property; over any sequence of image drops (also of an image LoadTexture    *)
(* returns id 0 for), delete clicks and .hdr reloads.                          *)
C29_TexturesMirrorMaterial ==
    viewer.pc = "values" =>
        \A i \in TypesPBR :
            /\ viewer.textures[i].id # 0 <=> mat[PropertyOf(i)].useBitmap
            /\ mat[PropertyOf(i)].useBitmap => viewer.textures[i] = mat[PropertyOf(i)].bitmap

====
